---- MODULE Spec2Model ----
(***************************************************************************)
(* Forefront Toolkit: the DataCollection record store / query engine and   *)
(* the Table widget that drives it (createTable, refreshTable, resetTable, *)
(* the sort and filter event handlers).                                    *)
(*                                                                         *)
(* JavaScript values are records [t, n, s]: t is the type tag, n the       *)
(* integer of a number (or 0/1 of a boolean), s the characters of a string *)
(* as a sequence of one-character strings.  A JavaScript Map is a sequence *)
(* of <<key, value>> pairs kept in insertion order, an Array a sequence.   *)
(***************************************************************************)
EXTENDS Integers, Sequences, FiniteSets, TLC

(***************************************************************************)
(* Bounds of the model.                                                    *)
(***************************************************************************)
MaxRows == 3

\* The most raw records one addRecords or loadDataSet call is handed.
MaxBatch == 2

(***************************************************************************)
(* JavaScript values.                                                      *)
(***************************************************************************)
Undefined == [t |-> "undefined", n |-> 0, s |-> <<>>]
Null == [t |-> "null", n |-> 0, s |-> <<>>]
NaN == [t |-> "nan", n |-> 0, s |-> <<>>]
Num(i) == [t |-> "number", n |-> i, s |-> <<>>]
Str(chars) == [t |-> "string", n |-> 0, s |-> chars]
Bool(b) == [t |-> "boolean", n |-> IF b THEN 1 ELSE 0, s |-> <<>>]

IsNumber(v) == v.t \in {"number", "nan"}

\* ToBoolean: undefined, null, false, 0, NaN and "" are falsy.
Truthy(v) ==
    CASE v.t = "undefined" -> FALSE
      [] v.t = "null" -> FALSE
      [] v.t = "nan" -> FALSE
      [] v.t = "boolean" -> v.n = 1
      [] v.t = "number" -> v.n # 0
      [] OTHER -> Len(v.s) > 0

(***************************************************************************)
(* Characters: the alphabet of the model with its UTF-16 code units.       *)
(***************************************************************************)
CodeTable ==
    << <<" ", 32>>, <<",", 44>>, <<"-", 45>>, <<"/", 47>>,
       <<"0", 48>>, <<"1", 49>>, <<"2", 50>>, <<"3", 51>>, <<"4", 52>>,
       <<"5", 53>>, <<"6", 54>>, <<"7", 55>>, <<"8", 56>>, <<"9", 57>>,
       <<":", 58>>, <<"<", 60>>, <<">", 62>>,
       <<"A", 65>>, <<"B", 66>>, <<"C", 67>>, <<"D", 68>>, <<"N", 78>>,
       <<"T", 84>>,
       <<"a", 97>>, <<"b", 98>>, <<"c", 99>>, <<"d", 100>>, <<"e", 101>>,
       <<"f", 102>>, <<"i", 105>>, <<"l", 108>>, <<"n", 110>>,
       <<"r", 114>>, <<"s", 115>>, <<"t", 116>>, <<"u", 117>> >>

Code(c) == (CHOOSE i \in 1..Len(CodeTable) : CodeTable[i][1] = c)

CharCode(c) == CodeTable[Code(c)][2]

Digits == <<"0", "1", "2", "3", "4", "5", "6", "7", "8", "9">>

IsDigit(c) == \E i \in 1..Len(Digits) : Digits[i] = c

DigitValue(c) == (CHOOSE i \in 1..Len(Digits) : Digits[i] = c) - 1

\* String.prototype.toLowerCase on one character.
LowerChar(c) ==
    CASE c = "A" -> "a" [] c = "B" -> "b" [] c = "C" -> "c" [] c = "D" -> "d"
      [] c = "N" -> "n" [] c = "T" -> "t" [] OTHER -> c

toLowerCase(chars) == [i \in 1..Len(chars) |-> LowerChar(chars[i])]

\* String.prototype.includes: needle occurs in hay as a contiguous substring.
includes(hay, needle) ==
    \E i \in 0..(Len(hay) - Len(needle)) :
        \A j \in 1..Len(needle) : hay[i + j] = needle[j]

\* Lexicographic comparison of two strings by code unit (the < of two strings).
RECURSIVE StrLess(_, _)
StrLess(a, b) ==
    IF Len(b) = 0 THEN FALSE
    ELSE IF Len(a) = 0 THEN TRUE
    ELSE IF CharCode(a[1]) < CharCode(b[1]) THEN TRUE
    ELSE IF CharCode(a[1]) > CharCode(b[1]) THEN FALSE
    ELSE StrLess(Tail(a), Tail(b))

\* Number.prototype.toString of an integer.
RECURSIVE NatToChars(_)
NatToChars(i) ==
    IF i < 10 THEN <<Digits[i + 1]>>
    ELSE NatToChars(i \div 10) \o <<Digits[(i % 10) + 1]>>

IntToChars(i) == IF i < 0 THEN <<"-">> \o NatToChars(0 - i) ELSE NatToChars(i)

\* String(v) / v.toString().
ToChars(v) ==
    CASE v.t = "undefined" -> <<"u", "n", "d", "e", "f", "i", "n", "e", "d">>
      [] v.t = "null" -> <<"n", "u", "l", "l">>
      [] v.t = "nan" -> <<"N", "a", "N">>
      [] v.t = "boolean" -> IF v.n = 1 THEN <<"t", "r", "u", "e">>
                                       ELSE <<"f", "a", "l", "s", "e">>
      [] v.t = "number" -> IntToChars(v.n)
      [] OTHER -> v.s

\* Leading and trailing white space removed (the alphabet has the space only).
RECURSIVE TrimLeft(_)
TrimLeft(chars) ==
    IF Len(chars) > 0 /\ chars[1] = " " THEN TrimLeft(Tail(chars)) ELSE chars

RECURSIVE TrimRight(_)
TrimRight(chars) ==
    IF Len(chars) > 0 /\ chars[Len(chars)] = " "
    THEN TrimRight(SubSeq(chars, 1, Len(chars) - 1)) ELSE chars

\* The number of leading digits of chars.
RECURSIVE DigitRun(_)
DigitRun(chars) ==
    IF Len(chars) > 0 /\ IsDigit(chars[1]) THEN 1 + DigitRun(Tail(chars)) ELSE 0

RECURSIVE DigitsValue(_)
DigitsValue(chars) ==
    IF Len(chars) = 0 THEN 0
    ELSE 10 * DigitsValue(SubSeq(chars, 1, Len(chars) - 1))
         + DigitValue(chars[Len(chars)])

\* parseFloat: the longest numeric prefix after leading white space; the
\* alphabet has no ".", "e" or "+", so a numeric prefix is [-]digits.
parseFloat(v) ==
    IF IsNumber(v) THEN v
    ELSE LET c == TrimLeft(ToChars(v))
             neg == Len(c) > 0 /\ c[1] = "-"
             body == IF neg THEN Tail(c) ELSE c
             k == DigitRun(body)
         IN IF k = 0 THEN NaN
            ELSE Num((IF neg THEN -1 ELSE 1) * DigitsValue(SubSeq(body, 1, k)))

\* ToNumber: the whole trimmed string must be a numeric literal; "" is 0.
ToNumber(v) ==
    CASE v.t = "undefined" -> NaN
      [] v.t = "null" -> Num(0)
      [] v.t = "boolean" -> Num(v.n)
      [] IsNumber(v) -> v
      [] OTHER ->
           LET c == TrimRight(TrimLeft(v.s))
               neg == Len(c) > 0 /\ c[1] = "-"
               body == IF neg THEN Tail(c) ELSE c
           IN IF Len(c) = 0 THEN Num(0)
              ELSE IF Len(body) > 0 /\ DigitRun(body) = Len(body)
                   THEN Num((IF neg THEN -1 ELSE 1) * DigitsValue(body))
                   ELSE NaN

isNaN(v) == ToNumber(v).t = "nan"

isFinite(v) == ToNumber(v).t = "number"

\* a < b of the language: two strings by code unit, otherwise as numbers,
\* and any comparison with NaN is false.
JsLess(a, b) ==
    IF a.t = "string" /\ b.t = "string" THEN StrLess(a.s, b.s)
    ELSE LET x == ToNumber(a)
             y == ToNumber(b)
         IN x.t = "number" /\ y.t = "number" /\ x.n < y.n

(***************************************************************************)
(* Regular expressions: a pattern is a sequence of atoms, each a character *)
(* class with a {min,max} quantifier, matched greedily with backtracking.  *)
(***************************************************************************)
D(lo, hi) == [cls |-> "digit", ch |-> "", min |-> lo, max |-> hi]
W(lo, hi) == [cls |-> "space", ch |-> "", min |-> lo, max |-> hi]
L(c, lo, hi) == [cls |-> "char", ch |-> c, min |-> lo, max |-> hi]

AtomAccepts(atom, c) ==
    CASE atom.cls = "digit" -> IsDigit(c)
      [] atom.cls = "space" -> c = " "
      [] OTHER -> c = atom.ch

\* The number of characters from pos on that the atom accepts, at most cap.
RECURSIVE AtomRun(_, _, _, _)
AtomRun(atom, chars, pos, cap) ==
    IF cap > 0 /\ pos <= Len(chars) /\ AtomAccepts(atom, chars[pos])
    THEN 1 + AtomRun(atom, chars, pos + 1, cap - 1) ELSE 0

\* The position after the match of atoms k.. of pattern at pos; 0: no match.
RECURSIVE MatchAt(_, _, _, _)
RECURSIVE MatchCount(_, _, _, _, _)
MatchAt(pattern, k, chars, pos) ==
    IF k > Len(pattern) THEN pos
    ELSE MatchCount(pattern, k, chars, pos,
                    AtomRun(pattern[k], chars, pos, pattern[k].max))

MatchCount(pattern, k, chars, pos, cnt) ==
    IF cnt < pattern[k].min THEN 0
    ELSE LET end == MatchAt(pattern, k + 1, chars, pos + cnt)
         IN IF end > 0 THEN end
            ELSE MatchCount(pattern, k, chars, pos, cnt - 1)

\* RegExp.prototype.test.
RegexTest(pattern, chars) ==
    \E i \in 1..(Len(chars) + 1) : MatchAt(pattern, 1, chars, i) > 0

\* String.prototype.match without the g flag: the leftmost match's text.
RegexMatch(pattern, chars) ==
    LET i == CHOOSE i \in 1..(Len(chars) + 1) :
                 /\ MatchAt(pattern, 1, chars, i) > 0
                 /\ \A j \in 1..(i - 1) : MatchAt(pattern, 1, chars, j) = 0
    IN SubSeq(chars, i, MatchAt(pattern, 1, chars, i) - 1)

\* String.prototype.split on a separator pattern that cannot match "".
RECURSIVE SplitFrom(_, _, _, _)
SplitFrom(sep, chars, pos, from) ==
    IF pos > Len(chars) THEN <<SubSeq(chars, from, Len(chars))>>
    ELSE LET end == MatchAt(sep, 1, chars, pos)
         IN IF end > pos
            THEN <<SubSeq(chars, from, pos - 1)>> \o SplitFrom(sep, chars, end, end)
            ELSE SplitFrom(sep, chars, pos + 1, from)

Split(sep, chars) == SplitFrom(sep, chars, 1, 1)

(***************************************************************************)
(* Date utilities.                                                         *)
(***************************************************************************)
\* /\d{1,2}\/\d{1,2}\/\d{4}\s{0,1}:{0,1}\d{0,2}:{0,1}\d{0,2}:{0,1}\d{0,2}/
euDateTimeRegExp ==
    <<D(1, 2), L("/", 1, 1), D(1, 2), L("/", 1, 1), D(4, 4), W(0, 1),
      L(":", 0, 1), D(0, 2), L(":", 0, 1), D(0, 2), L(":", 0, 1), D(0, 2)>>

isoDateFormatRegex == <<D(4, 4), L("-", 1, 1), D(1, 2), L("-", 1, 1), D(1, 2)>>

isoDateTimeFormatRegex ==
    isoDateFormatRegex
    \o <<L("T", 1, 1), D(1, 2), L(":", 1, 1), D(1, 2), L(":", 1, 1), D(1, 2)>>

timeRegex == <<D(1, 2), L(":", 1, 1), D(1, 2), L(":", 1, 1), D(1, 2)>>

\* convertIsoDateInEuDate(isoDateString, spaced, lineBreak); a number has no
\* match of the date pattern in its decimal form, so it converts to "".
convertIsoDateInEuDate(isoDateString, spaced, lineBreak) ==
    LET chars == ToChars(isoDateString)
        datePart ==
            IF RegexTest(isoDateFormatRegex, chars)
            THEN LET arrayIsoDate ==
                         Split(<<L("-", 1, 1)>>, RegexMatch(isoDateFormatRegex, chars))
                     sep == IF spaced = "spaced" THEN <<" ", "/", " ">> ELSE <<"/">>
                 IN arrayIsoDate[3] \o sep \o arrayIsoDate[2] \o sep \o arrayIsoDate[1]
            ELSE <<>>
        timePart ==
            IF RegexTest(isoDateTimeFormatRegex, chars)
            THEN (IF lineBreak THEN <<"<", "b", "r", " ", "/", ">">> ELSE <<" ">>)
                 \o RegexMatch(timeRegex, chars)
            ELSE <<>>
    IN Str(datePart \o timePart)

euDateFormatRegex ==
    <<D(1, 2), W(0, 1), L("/", 1, 1), W(0, 1), D(1, 2), W(0, 1), L("/", 1, 1),
      W(0, 1), D(4, 4)>>

\* The source writes s where \s was meant: a literal "s" precedes the time.
euDateTimeFormatRegex ==
    euDateFormatRegex
    \o <<L("s", 1, 1), D(1, 2), L(":", 1, 1), D(1, 2), L(":", 1, 1), D(1, 2)>>

\* convertEuDateInIsoDate(euDateString), on a string.
convertEuDateInIsoDate(euDateString) ==
    LET chars == euDateString.s
        datePart ==
            IF RegexTest(euDateFormatRegex, chars)
            THEN LET arrayDate ==
                         Split(<<L(" ", 0, Len(chars)), L("/", 1, 1),
                                 L(" ", 0, Len(chars))>>,
                               RegexMatch(euDateFormatRegex, chars))
                 IN arrayDate[3] \o <<"-">> \o arrayDate[2] \o <<"-">> \o arrayDate[1]
            ELSE <<>>
        timePart ==
            IF RegexTest(euDateTimeFormatRegex, chars)
            THEN <<"T">> \o RegexMatch(timeRegex, chars)
            ELSE <<>>
    IN Str(datePart \o timePart)

\* Days from 1970-01-01 of a civil date (a day past the month's end rolls over).
DaysFromCivil(y, m, d) ==
    LET yy == IF m <= 2 THEN y - 1 ELSE y
        era == yy \div 400
        yoe == yy - era * 400
        mp == IF m > 2 THEN m - 3 ELSE m + 9
        doy == ((153 * mp + 2) \div 5) + d - 1
        doe == yoe * 365 + (yoe \div 4) - (yoe \div 100) + doy
    IN era * 146097 + doe - 719468

DaysInMonth(y, m) ==
    IF m = 2
    THEN (IF (y % 4 = 0 /\ y % 100 # 0) \/ y % 400 = 0 THEN 29 ELSE 28)
    ELSE IF m \in {4, 6, 9, 11} THEN 30 ELSE 31

IsDigits(chars) == Len(chars) > 0 /\ DigitRun(chars) = Len(chars)

DateWellFormed(ymd) ==
    /\ Len(ymd) = 3
    /\ \A i \in 1..3 : IsDigits(ymd[i])
    /\ Len(ymd[1]) = 4 /\ Len(ymd[2]) <= 2 /\ Len(ymd[3]) <= 2

TimeWellFormed(hms) ==
    /\ Len(hms) = 3
    /\ \A i \in 1..3 : Len(hms[i]) \in {1, 2} /\ IsDigits(hms[i])
    /\ DigitsValue(hms[1]) < 24
    /\ DigitsValue(hms[2]) < 60
    /\ DigitsValue(hms[3]) < 60

\* The date and time are in the standard's format: every field two digits.
StandardFormat(ymd, hms) ==
    /\ Len(ymd[2]) = 2 /\ Len(ymd[3]) = 2
    /\ \A i \in 1..Len(hms) : Len(hms[i]) = 2

SecondsOfDay(hms) ==
    IF Len(hms) = 3
    THEN DigitsValue(hms[1]) * 3600 + DigitsValue(hms[2]) * 60 + DigitsValue(hms[3])
    ELSE 0

DateValue(y, m, d, seconds, standard, hasTime, h) ==
    IF m \notin 1..12 THEN NaN
    ELSE IF h.engine = "v8" /\ d \notin 1..31 THEN NaN
    ELSE IF h.engine # "v8" /\ (~standard \/ d \notin 1..DaysInMonth(y, m)) THEN NaN
    ELSE Num(DaysFromCivil(y, m, d) * 86400 + seconds
             + (IF hasTime \/ ~standard THEN h.tz ELSE 0))

DateTimeValue(ymd, hms, hasTime, h) ==
    IF ~DateWellFormed(ymd) \/ (hasTime /\ ~TimeWellFormed(hms)) THEN NaN
    ELSE DateValue(DigitsValue(ymd[1]), DigitsValue(ymd[2]), DigitsValue(ymd[3]),
                   SecondsOfDay(hms), StandardFormat(ymd, hms), hasTime, h)

DateParseParts(parts, h) ==
    IF Len(parts) > 2 THEN NaN
    ELSE DateTimeValue(Split(<<L("-", 1, 1)>>, parts[1]),
                       IF Len(parts) = 2 THEN Split(<<L(":", 1, 1)>>, parts[2])
                       ELSE <<>>,
                       Len(parts) = 2, h)

\* Date.parse of the strings convertEuDateInIsoDate builds, in seconds.  Only
\* YYYY-MM-DD[THH:mm:ss] is the standard's format: a date-only form is UTC, a
\* date-time form local time (h.tz seconds west of UTC).  Any other form is
\* left to the engine: V8 reads it as local time and lets a day up to 31 roll
\* over, SpiderMonkey rejects it.
DateParse(v, h) == DateParseParts(Split(<<L("T", 1, 1)>>, v.s), h)

(***************************************************************************)
(* DataCollection: parsing.                                                *)
(***************************************************************************)
\* A parser with one sentinel for every type.
ParseDataPointOneSentinel(rawPoint, rawType) ==
    IF rawPoint.t = "boolean" THEN Str(ToChars(rawPoint))
    ELSE IF Truthy(rawPoint) THEN rawPoint
    ELSE Str(<<"-">>)

\* _parseDataPoint(dataPoint = '', variableType = 'text'); an argument left
\* out is Undefined for the data point and "undefined" for the type.
parseDataPoint(rawPoint, rawType) ==
    LET variableType == IF rawType = "undefined" THEN "text" ELSE rawType
        dflt == IF rawPoint = Undefined THEN Str(<<>>) ELSE rawPoint
        dataPoint == IF dflt.t = "boolean" THEN Str(ToChars(dflt)) ELSE dflt
    IN IF Truthy(dataPoint)
       THEN IF variableType = "eu_date"
            THEN IF RegexTest(euDateTimeRegExp, ToChars(dataPoint))
                 THEN dataPoint
                 ELSE convertIsoDateInEuDate(dataPoint, "no-space", TRUE)
            ELSE dataPoint
       ELSE CASE variableType = "number" -> Num(0)
              [] variableType = "boolean" -> Str(<<"f", "a", "l", "s", "e">>)
              [] OTHER -> Str(<<"-">>)

(***************************************************************************)
(* Maps (insertion-ordered) and plain objects.                             *)
(***************************************************************************)
MapHas(m, k) == \E i \in 1..Len(m) : m[i][1] = k

MapGet(m, k) == m[CHOOSE i \in 1..Len(m) : m[i][1] = k][2]

MapSet(m, k, v) ==
    IF MapHas(m, k)
    THEN [i \in 1..Len(m) |-> IF m[i][1] = k THEN <<k, v>> ELSE m[i]]
    ELSE Append(m, <<k, v>>)

\* object[key] of a raw record: Undefined when the key is absent.
Prop(object, key) == IF MapHas(object, key) THEN MapGet(object, key) ELSE Undefined

EmptyMaps ==
    [uids |-> <<>>, reverseUids |-> <<>>, index |-> <<>>, reverseIndex |-> <<>>,
     types |-> <<>>, sorting |-> <<>>, filtering |-> <<>>, defaultOrder |-> <<>>]

(***************************************************************************)
(* DataCollection: the variable registry.                                  *)
(***************************************************************************)
\* Array.prototype.includes(variableUID) on the list of variables: the list
\* holds the declaration objects, and no object is strictly equal to a string.
ListIncludes(variablesList, variableUID) ==
    \E i \in 1..Len(variablesList) :
        variablesList[i].typeof = "string" /\ variablesList[i].uid = variableUID

\* One iteration (index i, from 0) of the loop of _createVariablesMaps.
\* A declaration's absent property is "".
CreateVariableMapsStep(m, variablesList, i) ==
    LET variable == variablesList[i + 1]
        variableUID == IF variable.uid # "" THEN variable.uid
                       ELSE "var_uid_" \o ToString(i)
        rawDefaultOrder == IF variable.defaultOrder # "" THEN variable.defaultOrder
                           ELSE "none"
        defaultOrder == IF rawDefaultOrder \in {"asc", "ascending"} THEN "asc"
                        ELSE IF rawDefaultOrder \in {"desc", "descending"} THEN "desc"
                        ELSE "none"
    IN IF ListIncludes(variablesList, variableUID)
       THEN [maps |-> m, thrown |-> "already exists"]
       ELSE IF variable.sourceField = ""
       THEN [maps |-> m, thrown |-> "source fields are missing"]
       ELSE [maps |->
                [uids |-> MapSet(m.uids, variableUID, variable.sourceField),
                 reverseUids |-> MapSet(m.reverseUids, variable.sourceField, variableUID),
                 index |-> MapSet(m.index, variableUID, i),
                 reverseIndex |-> MapSet(m.reverseIndex, i, variableUID),
                 types |-> MapSet(m.types, variableUID,
                                  IF variable.dataType # "" THEN variable.dataType
                                  ELSE "text"),
                 defaultOrder |-> MapSet(m.defaultOrder, variableUID, defaultOrder),
                 sorting |-> MapSet(m.sorting, variableUID, "none"),
                 filtering |-> MapSet(m.filtering, variableUID, <<>>)],
             thrown |-> "none"]

\* _createVariablesMaps: the loop from index i on; it stops at the first throw.
RECURSIVE CreateVariablesMapsFrom(_, _, _)
CreateVariablesMapsFrom(m, variablesList, i) ==
    IF i >= Len(variablesList) THEN [maps |-> m, thrown |-> "none"]
    ELSE LET step == CreateVariableMapsStep(m, variablesList, i)
         IN IF step.thrown # "none" THEN step
            ELSE CreateVariablesMapsFrom(step.maps, variablesList, i + 1)

createVariablesMaps(m, variablesList) == CreateVariablesMapsFrom(m, variablesList, 0)

\* _parseRecords: one row per raw record, one cell per entry of the uids map.
parseRecord(m, rawRecord) ==
    [k \in 1..Len(m.uids) |->
        parseDataPoint(Prop(rawRecord, m.uids[k][2]),
                       IF MapHas(m.types, m.uids[k][1])
                       THEN MapGet(m.types, m.uids[k][1]) ELSE "undefined")]

parseRecords(m, rawData) == [r \in 1..Len(rawData) |-> parseRecord(m, rawData[r])]

(***************************************************************************)
(* DataCollection: the query engine.                                       *)
(***************************************************************************)
\* record[variableIndex]: Undefined outside the row.
Cell(record, variableIndex) ==
    IF variableIndex + 1 \in 1..Len(record) THEN record[variableIndex + 1]
    ELSE Undefined

\* variableUID ? index.get(variableUID) : -1.  A UID the index map lacks gives
\* undefined, which the code's tests (> -1, record[...]) treat as they do -1.
IndexOf(m, variableUID) ==
    IF variableUID # "" /\ MapHas(m.index, variableUID)
    THEN MapGet(m.index, variableUID) ELSE -1

\* The comparator of sortRecords from its numeric test on.
CompareValues(dataPointA, dataPointB, order) ==
    IF /\ parseFloat(dataPointA).t = "number" /\ isFinite(dataPointA)
       /\ parseFloat(dataPointB).t = "number" /\ isFinite(dataPointB)
    THEN order * (parseFloat(dataPointA).n - parseFloat(dataPointB).n)
    ELSE IF JsLess(dataPointA, dataPointB) THEN order * (-1)
    ELSE IF JsLess(dataPointB, dataPointA) THEN order * 1
    ELSE 0

\* undefined and null are compared as "".
EmptyIfMissing(cell) ==
    IF cell.t \in {"undefined", "null"} THEN Str(<<>>) ELSE cell

BothEuDates(a, b) ==
    /\ RegexTest(euDateTimeRegExp, ToChars(a))
    /\ RegexTest(euDateTimeRegExp, ToChars(b))

\* Date.parse(convertEuDateInIsoDate(dataPoint)) when both cells are dates.
DateOrSelf(dataPoint, dates, h) ==
    IF dates THEN DateParse(convertEuDateInIsoDate(dataPoint), h) ELSE dataPoint

CompareDefined(a, b, dates, order, h) ==
    CompareValues(DateOrSelf(a, dates, h), DateOrSelf(b, dates, h), order)

\* The comparator of sortRecords on two cells; order is 1 or -1.
compareDataPoints(cellA, cellB, order, h) ==
    CompareDefined(EmptyIfMissing(cellA), EmptyIfMissing(cellB),
                   BothEuDates(EmptyIfMissing(cellA), EmptyIfMissing(cellB)),
                   order, h)

\* The comparator on two records, for the column at variableIndex.
compareRecords(a, b, variableIndex, order, h) ==
    compareDataPoints(Cell(a, variableIndex), Cell(b, variableIndex), order, h)

Reverse(seq) == [i \in 1..Len(seq) |-> seq[Len(seq) + 1 - i]]

InsertAt(seq, pos, item) ==
    SubSeq(seq, 1, pos) \o <<item>> \o SubSeq(seq, pos + 1, Len(seq))

\* Array.prototype.sort of SpiderMonkey on a short array: insertion sort, the
\* item moving left past every element that compares greater.
RECURSIVE InsertionSlot(_, _, _, _, _, _)
InsertionSlot(prefix, item, j, variableIndex, order, h) ==
    IF j = 0 THEN 0
    ELSE IF compareRecords(prefix[j], item, variableIndex, order, h) <= 0 THEN j
    ELSE InsertionSlot(prefix, item, j - 1, variableIndex, order, h)

RECURSIVE InsertionSortFrom(_, _, _, _, _)
InsertionSortFrom(arr, i, variableIndex, order, h) ==
    IF i > Len(arr) THEN arr
    ELSE LET prefix == SubSeq(arr, 1, i - 1)
             slot == InsertionSlot(prefix, arr[i], i - 1, variableIndex, order, h)
         IN InsertionSortFrom(InsertAt(prefix, slot, arr[i])
                                  \o SubSeq(arr, i + 1, Len(arr)),
                              i + 1, variableIndex, order, h)

\* Array.prototype.sort of V8 on a short array (one run of TimSort): the
\* leading run is counted, reversed if it descends strictly, and the rest is
\* inserted by binary search.
RunEnds(c, isDescending) == (isDescending /\ c >= 0) \/ (~isDescending /\ c < 0)

RECURSIVE RunLength(_, _, _, _, _, _)
RunLength(arr, idx, isDescending, variableIndex, order, h) ==
    IF idx > Len(arr) THEN idx - 1
    ELSE IF RunEnds(compareRecords(arr[idx], arr[idx - 1], variableIndex, order, h),
                    isDescending)
    THEN idx - 1
    ELSE RunLength(arr, idx + 1, isDescending, variableIndex, order, h)

RECURSIVE BinarySlot(_, _, _, _, _, _, _)
BinarySlot(arr, pivot, left, right, variableIndex, order, h) ==
    IF left >= right THEN left
    ELSE LET mid == left + ((right - left) \div 2)
         IN IF compareRecords(pivot, arr[mid + 1], variableIndex, order, h) < 0
            THEN BinarySlot(arr, pivot, left, mid, variableIndex, order, h)
            ELSE BinarySlot(arr, pivot, mid + 1, right, variableIndex, order, h)

RECURSIVE BinaryInsertionSortFrom(_, _, _, _, _)
BinaryInsertionSortFrom(arr, start, variableIndex, order, h) ==
    IF start >= Len(arr) THEN arr
    ELSE LET slot == BinarySlot(arr, arr[start + 1], 0, start, variableIndex, order, h)
         IN BinaryInsertionSortFrom(
                InsertAt(SubSeq(arr, 1, start), slot, arr[start + 1])
                    \o SubSeq(arr, start + 2, Len(arr)),
                start + 1, variableIndex, order, h)

MakeRunAscending(arr, runLength, isDescending) ==
    IF isDescending
    THEN Reverse(SubSeq(arr, 1, runLength)) \o SubSeq(arr, runLength + 1, Len(arr))
    ELSE arr

SortAfterRun(arr, runLength, isDescending, variableIndex, order, h) ==
    BinaryInsertionSortFrom(MakeRunAscending(arr, runLength, isDescending),
                            runLength, variableIndex, order, h)

CountAndMakeRun(arr, isDescending, variableIndex, order, h) ==
    SortAfterRun(arr, RunLength(arr, 3, isDescending, variableIndex, order, h),
                 isDescending, variableIndex, order, h)

TimSortShort(arr, variableIndex, order, h) ==
    IF Len(arr) < 2 THEN arr
    ELSE CountAndMakeRun(arr,
                         compareRecords(arr[2], arr[1], variableIndex, order, h) < 0,
                         variableIndex, order, h)

\* sortedRecords.sort(comparator) as the host's engine runs it.
ArraySort(arr, variableIndex, order, h) ==
    IF h.engine = "v8" THEN TimSortShort(arr, variableIndex, order, h)
    ELSE InsertionSortFrom(arr, 2, variableIndex, order, h)

\* No copy: the array itself.
SameArray(records) == [items |-> records, fresh |-> FALSE]

\* Object.assign([], records): a new array holding the elements of records.
ObjectAssign(records) == [items |-> records, fresh |-> TRUE]

\* A forEach over the sorting map that sorts a column whose state is none
\* in ascending order.
RECURSIVE SortNoneAsAscendingFrom(_, _, _, _)
SortNoneAsAscendingFrom(m, sortedRecords, k, h) ==
    IF k > Len(m.sorting) THEN [records |-> sortedRecords, thrown |-> "none"]
    ELSE SortNoneAsAscendingFrom(
             m,
             ArraySort(sortedRecords, IndexOf(m, m.sorting[k][1]),
                       IF m.sorting[k][2] \in {"desc", "descending"} THEN -1 ELSE 1, h),
             k + 1, h)

\* sortRecords: the forEach over the sorting map from entry k on.
RECURSIVE SortRecordsFrom(_, _, _, _)
SortRecordsFrom(m, sortedRecords, k, h) ==
    IF k > Len(m.sorting) THEN [records |-> sortedRecords, thrown |-> "none"]
    ELSE LET variableUID == m.sorting[k][1]
             ordering == m.sorting[k][2]
             variableIndex == IndexOf(m, variableUID)
             order == IF ordering \in {"desc", "descending"} THEN -1 ELSE 1
         IN IF ordering = "none" THEN SortRecordsFrom(m, sortedRecords, k + 1, h)
            ELSE IF variableUID # "" /\ variableIndex > -1
            THEN SortRecordsFrom(m, ArraySort(sortedRecords, variableIndex, order, h),
                                 k + 1, h)
            ELSE [records |-> sortedRecords, thrown |-> "variable NOT found"]

\* What sortRecords leaves: the array it returns (records), whether that is
\* a new array (fresh), and what the array it was handed holds afterwards
\* (argument): the sort is done in place on the copy taken at the start.
SortOutcome(sorted, records, fresh) ==
    [records |-> sorted.records, thrown |-> sorted.thrown, fresh |-> fresh,
     argument |-> IF fresh THEN records ELSE sorted.records]

SortCopy(m, records, copy, h) ==
    SortOutcome(SortRecordsFrom(m, copy.items, 1, h), records, copy.fresh)

sortRecords(m, records, h) == SortCopy(m, records, ObjectAssign(records), h)

\* The callback of filteredRecords.filter: record[variableIndex].toString()
\* throws a TypeError on a cell that is undefined or null.
FilterThrows(records, variableIndex) ==
    \E r \in 1..Len(records) :
        Cell(records[r], variableIndex).t \in {"undefined", "null"}

\* A filter callback that compares the cell as it is written.
FilterPassesCaseSensitive(record, variableIndex, value) ==
    includes(ToChars(Cell(record, variableIndex)), value)

FilterPasses(record, variableIndex, value) ==
    includes(toLowerCase(ToChars(Cell(record, variableIndex))), value)

\* filterRecords: the forEach over the filtering map from entry k on.
RECURSIVE FilterRecordsFrom(_, _, _)
FilterRecordsFrom(m, filteredRecords, k) ==
    IF k > Len(m.filtering) THEN [records |-> filteredRecords, thrown |-> "none"]
    ELSE LET variableIndex == IndexOf(m, m.filtering[k][1])
             value == toLowerCase(m.filtering[k][2])
         IN IF FilterThrows(filteredRecords, variableIndex)
            THEN [records |-> filteredRecords, thrown |-> "TypeError"]
            ELSE FilterRecordsFrom(
                     m,
                     SelectSeq(filteredRecords,
                               LAMBDA record : FilterPasses(record, variableIndex, value)),
                     k + 1)

\* What filterRecords leaves: Array.prototype.filter returns a new array
\* for every entry of the filtering map and changes none.
FilterOutcome(filtered, fresh) ==
    [records |-> filtered.records, thrown |-> filtered.thrown, fresh |-> fresh]

FilterCopy(m, copy) ==
    FilterOutcome(FilterRecordsFrom(m, copy.items, 1),
                  copy.fresh \/ Len(m.filtering) > 0)

filterRecords(m, records) == FilterCopy(m, ObjectAssign(records))

(***************************************************************************)
(* State: one Table with its DataCollection (this.data).                   *)
(***************************************************************************)
VARIABLES
    list,               \* this.variables.list: the column declarations
    maps,               \* this.variables.maps
    dataSet,            \* this.dataSet
    temporaryDataSet,   \* this.temporaryDataSet
    shared,             \* temporaryDataSet and dataSet are one and the same array
    named,              \* the property "undefined" of dataSet and of each of its rows
    fetcher,            \* the Fetcher around the table: its button, page map, requests
    rendered,           \* the table's DOM exists (its body, inputs and buttons)
    host,               \* the engine that runs the script, and its time zone
    op,                 \* the name of the last call
    thrown              \* what the last call threw, or "none"

vars ==
    <<list, maps, dataSet, temporaryDataSet, shared, named, fetcher, rendered, host, op,
      thrown>>

\* The Fetcher as its constructor and initialise() leave it: the "More
\* Records" button enabled (disabled is the button's property), an empty
\* pagination.dataMap (pages is its size) and no request on its way.  issued
\* counts the calls of fetch, a request is the number of its call, and
\* newest is the request of the latest new query.
NoRequest == [disabled |-> FALSE, pages |-> 0, pending |-> {}, issued |-> 0, newest |-> 0]

\* An array of n rows that have no other property than their cells; the
\* value of an absent property is Undefined.
NoNamed(n) == [dataSet |-> Undefined, rows |-> [r \in 1..n |-> Undefined]]

\* A column declaration as the Table constructor leaves it (uid = i.toString()).
Column(i, sourceField, dataType, defaultOrder) ==
    [typeof |-> "object", uid |-> ToString(i), sourceField |-> sourceField,
     dataType |-> dataType, defaultOrder |-> defaultOrder]

\* The columns a table is constructed with: a text column with no default
\* order and a number column shown in descending order.
DataModels ==
    {<<Column(0, "x", "", ""), Column(1, "y", "number", "descending")>>}

ColumnUIDs == {"0", "1"}

\* The raw records a caller hands over.
RawRecords ==
    {<< <<"x", Num(1)>>, <<"y", Num(2)>> >>,
     << <<"x", Num(1)>>, <<"y", Num(1)>> >>,
     << <<"x", Num(2)>>, <<"y", Num(1)>> >>,
     << <<"x", Str(<<"A", "b">>)>> >>}

\* The sequences of at most n distinct elements of S.
RECURSIVE DistinctSeqs(_, _)
DistinctSeqs(S, n) ==
    IF n = 0 THEN {<<>>}
    ELSE LET shorter == DistinctSeqs(S, n - 1)
             Extended(q) == {Append(q, e) : e \in {x \in S : \A i \in 1..Len(q) : q[i] # x}}
         IN shorter \cup UNION {Extended(q) : q \in shorter}

Range(seq) == {seq[i] : i \in 1..Len(seq)}

\* What a user types into (or selects in) a column's filter.
FilterTexts == {<<>>, <<"1">>, <<"A">>}

\* The texts tried on a column: digits only on the number column.
FilterTextsOf(c) == IF c = "1" THEN {<<>>, <<"1">>} ELSE FilterTexts

SortOrders == {"none", "asc", "desc"}

Hosts == {[engine |-> e, tz |-> 0] : e \in {"v8", "spidermonkey"}}

Init ==
    /\ list \in DataModels
    /\ maps = EmptyMaps
    /\ dataSet = <<>>
    /\ temporaryDataSet = <<>>
    /\ shared = FALSE
    /\ named = NoNamed(0)
    /\ fetcher = NoRequest
    /\ rendered = FALSE
    /\ host \in Hosts
    /\ op = "new"
    /\ thrown = "none"

(***************************************************************************)
(* Table and DataCollection operations.                                    *)
(***************************************************************************)
\* Map.prototype.forEach of _createTableStructure: sorting.set(uid, default).
RECURSIVE CopyDefaultOrderFrom(_, _, _)
CopyDefaultOrderFrom(sorting, defaultOrder, k) ==
    IF k > Len(defaultOrder) THEN sorting
    ELSE CopyDefaultOrderFrom(MapSet(sorting, defaultOrder[k][1], defaultOrder[k][2]),
                              defaultOrder, k + 1)

\* _createTableStructure(data) once data is sorted: what it leaves, as
\* [maps, source, temp, assigned, fresh, thrown]: source is what the array
\* handed in holds afterwards, and the view is assigned the sorted array only
\* if the sort did not throw.
Structured(m, sorted, temp) ==
    [maps |-> m,
     source |-> sorted.argument,
     temp |-> IF sorted.thrown = "none" THEN sorted.records ELSE temp,
     assigned |-> sorted.thrown = "none",
     fresh |-> sorted.fresh,
     thrown |-> sorted.thrown]

SortedByDefault(m, data, temp, h) == Structured(m, sortRecords(m, data, h), temp)

\* A table structure built without touching the sort state.
CreateTableStructureAsSorted(m, data, temp, h) == SortedByDefault(m, data, temp, h)

\* _createTableStructure(data): the default orders become the sort state.
createTableStructure(m, data, temp, h) ==
    SortedByDefault([m EXCEPT !.sorting =
                                  CopyDefaultOrderFrom(m.sorting, m.defaultOrder, 1)],
                    data, temp, h)

\* A refresh that adds the rows to the ones the view already holds.
RefreshAppending(data, temp) == temp \o data

\* What refreshTable reads its rows from.
refreshSource(data, temp) == data

\* A refresh that shows the sorted rows and leaves the filters out.
RefreshedUnfiltered(sorted, filtered, temp, isRendered) ==
    [source |-> sorted.argument,
     temp |-> IF sorted.thrown = "none" /\ isRendered THEN sorted.records ELSE temp,
     assigned |-> sorted.thrown = "none" /\ isRendered,
     fresh |-> sorted.fresh,
     thrown |-> IF sorted.thrown # "none" THEN sorted.thrown
                ELSE IF ~isRendered THEN "TypeError"
                ELSE "none"]

\* refreshTable() once the rows are sorted and filtered: the view, as
\* [source, temp, assigned, fresh, thrown]; without a rendered table the body
\* lookup gives null, and setting its innerHTML throws before
\* temporaryDataSet is assigned.
Refreshed(sorted, filtered, temp, isRendered) ==
    [source |-> sorted.argument,
     temp |-> IF sorted.thrown = "none" /\ filtered.thrown = "none" /\ isRendered
              THEN filtered.records ELSE temp,
     assigned |-> sorted.thrown = "none" /\ filtered.thrown = "none" /\ isRendered,
     fresh |-> sorted.fresh \/ filtered.fresh,
     thrown |-> IF sorted.thrown # "none" THEN sorted.thrown
                ELSE IF filtered.thrown # "none" THEN filtered.thrown
                ELSE IF ~isRendered THEN "TypeError"
                ELSE "none"]

RefreshSorted(m, sorted, temp, isRendered) ==
    Refreshed(sorted, filterRecords(m, sorted.records), temp, isRendered)

\* refreshTable(): the view it computes, as [temp, thrown].
refreshView(m, data, temp, isRendered, h) ==
    RefreshSorted(m, sortRecords(m, refreshSource(data, temp), h), temp, isRendered)

\* dataSet, temporaryDataSet and what was thrown, set from a computed view.
SetView(view) ==
    /\ dataSet' = view.source
    /\ temporaryDataSet' = view.temp
    /\ shared' = IF view.assigned THEN ~view.fresh ELSE shared
    /\ thrown' = view.thrown

\* createTable after buildDataCollection has parsed the rows; _createDataSet
\* has left in temporaryDataSet a copy of them.
StructureTable(made, copy) ==
    /\ maps' = made.maps
    /\ dataSet' = made.source
    /\ temporaryDataSet' = made.temp
    /\ shared' = IF made.assigned THEN ~made.fresh ELSE ~copy.fresh
    /\ thrown' = made.thrown
    /\ rendered' = (rendered \/ made.thrown = "none")

BuildTable(m, rows) ==
    StructureTable(createTableStructure(m, rows, rows, host), ObjectAssign(rows))

\* createTable after _createVariablesMaps: a throw leaves the maps as they
\* were when it was thrown, and nothing else is done.
BuildCollection(built, data) ==
    IF built.thrown # "none"
    THEN /\ maps' = built.maps
         /\ thrown' = built.thrown
         /\ UNCHANGED <<dataSet, temporaryDataSet, shared, named, rendered>>
    ELSE /\ BuildTable(built.maps,
                       IF Len(data) > 0 THEN parseRecords(built.maps, data) ELSE <<>>)
         /\ named' = NoNamed(Len(data))

\* Table.createTable(data): buildDataCollection, then _createTableStructure.
createTable(data) ==
    /\ op' = "createTable"
    /\ BuildCollection(createVariablesMaps(maps, list), data)
    /\ UNCHANGED <<list, fetcher, host>>

\* Table.refreshTable().
refreshTable ==
    /\ op' = "refreshTable"
    /\ SetView(refreshView(maps, dataSet, temporaryDataSet, rendered, host))
    /\ UNCHANGED <<list, fetcher, maps, named, rendered, host>>

\* A listener that sets one entry of the sort or filter state and refreshes.
SetAndRefresh(m) ==
    /\ rendered
    /\ maps' = m
    /\ SetView(refreshView(m, dataSet, temporaryDataSet, rendered, host))
    /\ UNCHANGED <<list, fetcher, named, rendered, host>>

\* A filter listener that also takes the sort off its column.
FilterEventUnsorting(targetColumn, value) ==
    /\ op' = "filterEvent"
    /\ SetAndRefresh([maps EXCEPT !.filtering = MapSet(maps.filtering, targetColumn, value),
                                  !.sorting = MapSet(maps.sorting, targetColumn, "none")])

\* The input / change listener of a column's filter: filtering.set, refresh.
filterEvent(targetColumn, value) ==
    /\ op' = "filterEvent"
    /\ SetAndRefresh([maps EXCEPT !.filtering =
                                      MapSet(maps.filtering, targetColumn, value)])

\* The click listener of a sorting button: the order is "none" when the
\* click leaves the button inactive, and the button's data-ft-sorting if not.
sortClick(targetColumn, order) ==
    /\ op' = "sortClick"
    /\ SetAndRefresh([maps EXCEPT !.sorting =
                                      MapSet(maps.sorting, targetColumn, order)])

ResetTo(made) ==
    /\ maps' = made.maps
    /\ dataSet' = made.source
    /\ temporaryDataSet' = made.temp
    /\ shared' = (made.assigned /\ ~made.fresh)
    /\ thrown' = made.thrown
    /\ rendered' = (rendered \/ made.thrown = "none")

\* A reset that leaves the filter texts where they are.
ResetKeepingFilters ==
    /\ op' = "resetTable"
    /\ ResetTo(createTableStructure([maps EXCEPT !.sorting = <<>>], dataSet, <<>>, host))
    /\ UNCHANGED <<list, fetcher, named, host>>

\* Table.resetTable().
resetTable ==
    /\ op' = "resetTable"
    /\ ResetTo(createTableStructure([maps EXCEPT !.filtering = <<>>, !.sorting = <<>>],
                                    dataSet, <<>>, host))
    /\ UNCHANGED <<list, fetcher, named, host>>

\* The rows put in front of the ones dataSet holds.
PushFront(rows) ==
    /\ dataSet' = rows \o dataSet
    /\ temporaryDataSet' = temporaryDataSet

\* dataSet.push(...rows): the rows land in temporaryDataSet too if it is the
\* same array.
Push(rows) ==
    /\ dataSet' = dataSet \o rows
    /\ temporaryDataSet' = IF shared THEN dataSet \o rows ELSE temporaryDataSet

\* DataCollection.addRecords(rawData).
addRecords(rawData) ==
    /\ Len(dataSet) + Len(rawData) <= MaxRows
    /\ op' = "addRecords"
    /\ Push(IF Len(rawData) > 0 THEN parseRecords(maps, rawData) ELSE <<>>)
    /\ thrown' = "none"
    /\ named' = [named EXCEPT !.rows = @ \o [r \in 1..Len(rawData) |-> Undefined]]
    /\ UNCHANGED <<list, fetcher, maps, shared, rendered, host>>

\* DataCollection.loadDataSet(rawData): its first statement calls
\* this._resetData, which no class defines, so the call throws a TypeError.
loadDataSet(rawData) ==
    /\ op' = "loadDataSet"
    /\ thrown' = "TypeError"
    /\ UNCHANGED <<list, fetcher, maps, dataSet, temporaryDataSet, shared, named, rendered, host>>

\* Array.prototype.splice(start, deleteCount) with start >= 0: the array left.
Splice(arr, start, deleteCount) ==
    LET from == IF start > Len(arr) THEN Len(arr) ELSE start
        count == IF deleteCount < 0 THEN 0
                 ELSE IF deleteCount > Len(arr) - from THEN Len(arr) - from
                 ELSE deleteCount
    IN SubSeq(arr, 1, from) \o SubSeq(arr, from + count + 1, Len(arr))

\* lastRecordIndex - firstRecordIndex, the count removeDataPoints splices out.
DeleteCount(firstRecordIndex, lastRecordIndex) == lastRecordIndex - firstRecordIndex

\* The rows removeDataPoints keeps.
RemainingRecords(data, firstRecordIndex, lastArg) ==
    Splice(data, firstRecordIndex,
           DeleteCount(firstRecordIndex,
                       IF Truthy(lastArg) THEN lastArg.n ELSE Len(data) - 1))

\* The view removeDataPoints computes once the kept rows are sorted and
\* filtered, as [source, temp, assigned, fresh, thrown]; temporaryDataSet is
\* assigned the sorted rows before they are filtered.
Recomputed(sorted, filtered, temp) ==
    [source |-> sorted.argument,
     temp |-> IF sorted.thrown # "none" THEN temp
              ELSE IF filtered.thrown # "none" THEN sorted.records
              ELSE filtered.records,
     assigned |-> sorted.thrown = "none",
     fresh |-> sorted.fresh \/ (filtered.thrown = "none" /\ filtered.fresh),
     thrown |-> IF sorted.thrown # "none" THEN sorted.thrown ELSE filtered.thrown]

RecomputeSorted(m, sorted, temp) ==
    Recomputed(sorted, filterRecords(m, sorted.records), temp)

\* The view left as it was.
StaleView(m, data, temp, h) ==
    [source |-> data, temp |-> temp, assigned |-> FALSE, fresh |-> TRUE,
     thrown |-> "none"]

RecomputedView(m, data, temp, h) == RecomputeSorted(m, sortRecords(m, data, h), temp)

RemoveTo(kept) == SetView(RecomputedView(maps, kept, temporaryDataSet, host))

\* DataCollection.removeDataPoints(firstRecordIndex, lastRecordIndex), called
\* without variableUIDs; lastArg is Undefined when the argument is left out.
removeDataPoints(firstRecordIndex, lastArg) ==
    /\ op' = "removeDataPoints"
    /\ RemoveTo(RemainingRecords(dataSet, firstRecordIndex, lastArg))
    /\ named' = [named EXCEPT !.rows = RemainingRecords(@, firstRecordIndex, lastArg)]
    /\ UNCHANGED <<list, fetcher, maps, rendered, host>>

\* A removal that clears the maps whether asked to or not.
RemoveAllDataAndMaps(data, variables) ==
    /\ op' = "removeAllData"
    /\ dataSet' = IF data THEN <<>> ELSE dataSet
    /\ temporaryDataSet' = IF data THEN <<>> ELSE temporaryDataSet
    /\ shared' = (~data /\ shared)
    /\ named' = IF data THEN NoNamed(0) ELSE named
    /\ maps' = EmptyMaps
    /\ thrown' = "none"
    /\ UNCHANGED <<list, fetcher, rendered, host>>

\* DataCollection.removeAllData(dataSet = true, variables = true).
removeAllData(data, variables) ==
    /\ op' = "removeAllData"
    /\ dataSet' = IF data THEN <<>> ELSE dataSet
    /\ temporaryDataSet' = IF data THEN <<>> ELSE temporaryDataSet
    /\ shared' = (~data /\ shared)
    /\ named' = IF data THEN NoNamed(0) ELSE named
    /\ maps' = IF variables THEN EmptyMaps ELSE maps
    /\ thrown' = "none"
    /\ UNCHANGED <<list, fetcher, rendered, host>>

\* An array of raw values, as the values of a bulk edit.
Arr(items) == [t |-> "array", n |-> 0, s |-> items]

\* values[i] and values.split('')[i]: a character of a string, an element of
\* an array, undefined past their end and on a number or a boolean.
ValueAt(values, i) ==
    IF values.t \in {"string", "array"} /\ i < Len(values.s)
    THEN IF values.t = "string" THEN Str(<<values.s[i + 1]>>) ELSE values.s[i + 1]
    ELSE Undefined

\* this.variables.maps.reverseUids.get(variableUID), as a property name: the
\* keys of reverseUids are the source fields, so a UID that is no source
\* field gives undefined.
EditIndex(m, variableUID) ==
    IF MapHas(m.reverseUids, variableUID) THEN MapGet(m.reverseUids, variableUID)
    ELSE "undefined"

\* The branch of editDataPoints taken without a (truthy) record index: each
\* row is assigned, under the name index, the parsed value of its place.
EditRows(values) ==
    IF Len(dataSet) > 0 /\ values.t \in {"null", "undefined"}
    THEN thrown' = "TypeError" /\ UNCHANGED named
    ELSE /\ thrown' = "none"
         /\ named' = [named EXCEPT !.rows =
                          [r \in 1..Len(dataSet) |->
                              parseDataPoint(ValueAt(values, r - 1), "undefined")]]

\* DataCollection.editDataPoints(recordIndex, variableUID, values), called
\* with the UID of a column that is not also the name of a source field
\* (with a record index, values is one raw value): the assignments
\* this.dataSet[index] = ... and this.dataSet[i][index] = ... then set the
\* property named "undefined" and no element.
editDataPoints(recordIndex, variableUID, values) ==
    /\ variableUID # ""
    /\ EditIndex(maps, variableUID) = "undefined"
    /\ Truthy(recordIndex) => values.t # "array"
    /\ op' = "editDataPoints"
    /\ IF Truthy(recordIndex)
       THEN /\ thrown' = "none"
            /\ named' = [named EXCEPT !.dataSet =
                             parseDataPoint(values,
                                            IF MapHas(maps.types, variableUID)
                                            THEN MapGet(maps.types, variableUID)
                                            ELSE "undefined")]
       ELSE EditRows(values)
    /\ UNCHANGED <<list, fetcher, maps, dataSet, temporaryDataSet, shared, rendered, host>>

\* The data a first page brings, and the batches appended to it.
Pages == DistinctSeqs(RawRecords, MaxRows)

\* The rows one call appends or loads.
Batches == {q \in Pages : Len(q) <= MaxBatch}

\* Raw records none of which the store already holds a row of.
NotStored(rawData) ==
    \A i \in 1..Len(rawData) : parseRecord(maps, rawData[i]) \notin Range(dataSet)

\* The record store: the table is built once and its rows are then appended
\* to, removed and reloaded, under the sort and filter state of the moment.
Next ==
    \/ \E data \in Pages : ~rendered /\ createTable(data)
    \/ refreshTable
    \/ \E value \in FilterTexts : filterEvent("0", value)
    \/ \E order \in SortOrders : sortClick("1", order)
    \/ \E rawData \in Batches : NotStored(rawData) /\ addRecords(rawData)
    \/ \E rawData \in Batches : Len(rawData) > 0 /\ loadDataSet(rawData)
    \/ \E first \in 0..(MaxRows - 1),
          last \in {Undefined} \cup {Num(i) : i \in 0..(MaxRows - 1)} :
           /\ first < Len(dataSet)
           /\ Truthy(last) => last.n < Len(dataSet)
           /\ removeDataPoints(first, last)

Spec == Init /\ [][Next]_vars

\* The query engine: a table is built and its columns are sorted and filtered.
NextQuery ==
    \/ \E data \in Pages : ~rendered /\ createTable(data)
    \/ refreshTable
    \/ \E c \in ColumnUIDs : \E value \in FilterTextsOf(c) : filterEvent(c, value)
    \/ \E c \in ColumnUIDs, order \in SortOrders : sortClick(c, order)

SpecQuery == Init /\ [][NextQuery]_vars

\* The value types a column is declared with ("" when it declares none).
ParseTypes == {"", "text", "number", "boolean", "eu_date"}

ParseModels == {<<Column(0, "x", t, "")>> : t \in ParseTypes}

\* The raw values a record holds at the column's source field.
RawValues ==
    {Null, NaN, Num(0), Num(7), Bool(FALSE), Bool(TRUE), Str(<<>>), Str(<<"a", "b">>),
     Str(<<"2", "0", "2", "3", "-", "0", "5", "-", "0", "7">>),
     Str(<<"2", "0", "2", "3", "-", "0", "5", "-", "0", "7", "T",
           "1", "0", ":", "2", "0", ":", "3", "0">>),
     Str(<<"0", "7", "/", "0", "5", "/", "2", "0", "2", "3">>),
     Str(<<"0", "7", "/", "0", "5", "/", "2", "0", "2", "3", " ",
           "1", "0", ":", "2", "0", ":", "3", "0">>)}

\* Raw records of one field: the field missing, or holding a raw value.
ParseRecords == {<<>>} \cup {<< <<"x", v>> >> : v \in RawValues}

\* What one call is handed: no raw record, or one.
ParsePages == {<<>>} \cup {<<rawRecord>> : rawRecord \in ParseRecords}

InitParse ==
    /\ list \in ParseModels
    /\ maps = EmptyMaps
    /\ dataSet = <<>>
    /\ temporaryDataSet = <<>>
    /\ shared = FALSE
    /\ named = NoNamed(0)
    /\ fetcher = NoRequest
    /\ rendered = FALSE
    /\ host \in Hosts
    /\ op = "new"
    /\ thrown = "none"

\* Normalization: raw records of every shape are loaded into, and appended
\* to, a table of one column of each value type, one record at a time.
NextParse ==
    \/ \E data \in ParsePages : ~rendered /\ createTable(data)
    \/ \E rawData \in ParsePages : rendered /\ NotStored(rawData) /\ addRecords(rawData)

SpecParse == InitParse /\ [][NextParse]_vars

(***************************************************************************)
(* Properties of the query engine.                                         *)
(***************************************************************************)
\* The last call recomputed the view and assigned it.
ViewFresh ==
    /\ rendered
    /\ thrown = "none"
    /\ op \in {"createTable", "refreshTable", "filterEvent", "sortClick"}

\* The entries of the sorting map whose state is other than none.
SortedEntries == {k \in 1..Len(maps.sorting) : maps.sorting[k][2] # "none"}

\* The comparator's verdict on rows a and b for entry k of the sorting map.
KeyCompare(a, b, k) ==
    compareRecords(a, b, IndexOf(maps, maps.sorting[k][1]),
                   IF maps.sorting[k][2] \in {"desc", "descending"} THEN -1 ELSE 1,
                   host)

\* Row a belongs after row b: on the sorted column of highest ordinal on
\* which the comparator tells them apart, a is the greater.
MisOrdered(a, b) ==
    \E k \in SortedEntries :
        /\ KeyCompare(a, b, k) > 0
        /\ \A later \in SortedEntries : later > k => KeyCompare(a, b, later) = 0

\* C1: when several columns have a sort state other than none, the view is
\* ordered primarily by the sorted column of highest ordinal, and each
\* earlier sorted column only breaks ties among rows equal on all later ones:
\* no row of the view stands before a row it belongs after.
C1_SortPriority ==
    (ViewFresh /\ Cardinality(SortedEntries) >= 2) =>
        \A i, j \in 1..Len(temporaryDataSet) :
            i < j => ~MisOrdered(temporaryDataSet[i], temporaryDataSet[j])

\* C1, where it fails: two sorted columns, and two neighbours of the view of
\* which the first belongs after the second.
C1_Reached ==
    /\ ViewFresh
    /\ Cardinality(SortedEntries) >= 2
    /\ \E i \in 1..(Len(temporaryDataSet) - 1) :
           MisOrdered(temporaryDataSet[i], temporaryDataSet[i + 1])

\* text occurs in chars as a substring.
Occurs(text, chars) ==
    \E i \in 0..(Len(chars) - Len(text)) : SubSeq(chars, i + 1, i + Len(text)) = text

\* Entry k of the filtering map lets the row through: its text is empty, or
\* the row's cell in that column, stringified and lower-cased, contains the
\* lower-cased text.
EntryAdmits(row, k) ==
    maps.filtering[k][2] # <<>> =>
        Occurs(toLowerCase(maps.filtering[k][2]),
               toLowerCase(ToChars(Cell(row, IndexOf(maps, maps.filtering[k][1])))))

Admitted(row) == \A k \in 1..Len(maps.filtering) : EntryAdmits(row, k)

\* C2: after filterRecords a row is retained if and only if every column
\* whose filter text is not empty has, in the row's cell stringified and
\* lower-cased, the lower-cased filter text as a substring; a column with an
\* empty filter text excludes no row.
C2_FilterAnd ==
    ViewFresh =>
        /\ Range(temporaryDataSet) \subseteq Range(dataSet)
        /\ \A r \in 1..Len(dataSet) :
               (dataSet[r] \in Range(temporaryDataSet)) <=> Admitted(dataSet[r])

\* C2, where it matters: two filter texts, a row that passes both, a row
\* that passes only the first and a row that passes only the second.
C2_Reached ==
    /\ ViewFresh
    /\ Len(maps.filtering) = 2
    /\ maps.filtering[1][2] # <<>>
    /\ maps.filtering[2][2] # <<>>
    /\ temporaryDataSet # <<>>
    /\ \E r \in 1..Len(dataSet) : EntryAdmits(dataSet[r], 1) /\ ~EntryAdmits(dataSet[r], 2)
    /\ \E r \in 1..Len(dataSet) : EntryAdmits(dataSet[r], 2) /\ ~EntryAdmits(dataSet[r], 1)

\* C3: recompute is a function of the rows and of the sort and filter state:
\* a refresh that follows a recompute, with the rows and that state as they
\* were, completes and leaves the view as it was, in content and in order.
C3_RecomputeIdempotent ==
    [][(ViewFresh /\ op' = "refreshTable") =>
          (thrown' = "none" /\ temporaryDataSet' = temporaryDataSet)]_vars

\* C3, where it matters: a refresh of a table with a sorted column, a filter
\* text and two rows or more in the view.
C3_Reached ==
    /\ ViewFresh
    /\ op = "refreshTable"
    /\ SortedEntries # {}
    /\ \E k \in 1..Len(maps.filtering) : maps.filtering[k][2] # <<>>
    /\ Len(temporaryDataSet) >= 2

\* C4: when every column's sort state is none, the view is the subsequence
\* of dataSet that passes the filters, in the order the rows have in dataSet.
C4_NoSortKeepsOrder ==
    (ViewFresh /\ SortedEntries = {}) =>
        temporaryDataSet = SelectSeq(dataSet, Admitted)

\* C4, where it matters: no column sorted, a filter that drops a row, and
\* two rows of the view that an ascending sort of column 1 would swap.
C4_Reached ==
    /\ ViewFresh
    /\ SortedEntries = {}
    /\ Len(maps.sorting) = 2
    /\ Len(temporaryDataSet) = 2
    /\ Len(dataSet) > 2
    /\ Cell(temporaryDataSet[1], 1).n > Cell(temporaryDataSet[2], 1).n

\* C5: a recompute leaves dataSet with the rows it had, in the order they
\* had, and the view it assigns is an array other than dataSet.
C5_RecomputeKeepsFullSet ==
    [][op' \in {"refreshTable", "filterEvent", "sortClick"} =>
          (dataSet' = dataSet /\ (thrown' = "none" => ~shared'))]_vars

\* C5, where it matters: a recompute whose sort has put every row of dataSet
\* into the view in another order.
C5_Reached ==
    /\ ViewFresh
    /\ op \in {"refreshTable", "filterEvent", "sortClick"}
    /\ SortedEntries # {}
    /\ Len(temporaryDataSet) = Len(dataSet)
    /\ temporaryDataSet # dataSet
    /\ ~shared

(***************************************************************************)
(* Properties of the record store.                                         *)
(***************************************************************************)
\* The rows of data outside the indices first..last.
WithoutRange(data, first, last) ==
    SubSeq(data, 1, first) \o SubSeq(data, last + 2, Len(data))

NoFilterText == \A k \in 1..Len(maps.filtering) : maps.filtering[k][2] = <<>>

\* C6: removeDataPoints(first, last) deletes exactly the rows at the indices
\* first..last, both ends included, and leaves the other rows in the order
\* they had, in dataSet and, with no sort and no filter, in the view.
C6_RemovesInclusiveRange ==
    [][\A first \in 0..(MaxRows - 1), last \in 0..(MaxRows - 1) :
          (first <= last /\ last < Len(dataSet) /\ removeDataPoints(first, Num(last))) =>
              /\ dataSet' = WithoutRange(dataSet, first, last)
              /\ (SortedEntries = {} /\ NoFilterText) =>
                     temporaryDataSet' = WithoutRange(dataSet, first, last)]_vars

\* C6, where it fails: a removal has left rows behind.
C6_Reached ==
    /\ op = "removeDataPoints"
    /\ thrown = "none"
    /\ rendered
    /\ Len(dataSet) >= 2

\* C7: after removeDataPoints the view is filterRecords(sortRecords(dataSet))
\* of the rows dataSet now holds, under the sort and filter state of the
\* moment; it holds no row that dataSet has not.
C7_ViewNotStale ==
    (op = "removeDataPoints" /\ thrown = "none") =>
        /\ temporaryDataSet = filterRecords(maps, sortRecords(maps, dataSet, host).records).records
        /\ Range(temporaryDataSet) \subseteq Range(dataSet)
        /\ \A r \in 1..Len(dataSet) :
               (dataSet[r] \in Range(temporaryDataSet)) <=> Admitted(dataSet[r])

\* C7, where it matters: rows removed from a table with a sorted column and
\* a filter text, the view keeping a row and dataSet a row the view has not.
C7_Reached ==
    /\ op = "removeDataPoints"
    /\ thrown = "none"
    /\ rendered
    /\ SortedEntries # {}
    /\ ~NoFilterText
    /\ temporaryDataSet # <<>>
    /\ Len(temporaryDataSet) < Len(dataSet)

\* C8: addRecords puts the parsed rows of rawData at the end of dataSet in
\* the order they come in, leaves the rows dataSet had as and where they
\* were, and changes neither the view nor the sort and filter state.
C8_AppendFrame ==
    [][\A rawData \in Batches :
          addRecords(rawData) =>
              /\ Len(dataSet') = Len(dataSet) + Len(rawData)
              /\ \A i \in 1..Len(dataSet) : dataSet'[i] = dataSet[i]
              /\ \A i \in 1..Len(rawData) :
                     dataSet'[Len(dataSet) + i] = parseRecord(maps, rawData[i])
              /\ temporaryDataSet' = temporaryDataSet
              /\ maps' = maps]_vars

\* C8, where it matters: two rows appended to a sorted table of one row.
C8_Reached ==
    /\ op = "addRecords"
    /\ rendered
    /\ SortedEntries # {}
    /\ Len(temporaryDataSet) = 1
    /\ Len(dataSet) = 3

\* C9: loadDataSet of raw records, on a collection that holds rows, ends
\* without an error, with dataSet the parsed rows of the raw records in
\* their order and the view a copy of it.
C9_LoadReplaces ==
    [][\A rawData \in Batches :
          (Len(rawData) > 0 /\ dataSet # <<>> /\ loadDataSet(rawData)) =>
              /\ thrown' = "none"
              /\ dataSet' = [r \in 1..Len(rawData) |-> parseRecord(maps', rawData[r])]
              /\ temporaryDataSet' = dataSet']_vars

\* C9, where it fails: loadDataSet has thrown on a collection that holds rows.
C9_Reached ==
    /\ op = "loadDataSet"
    /\ thrown = "TypeError"
    /\ dataSet # <<>>

(***************************************************************************)
(* Properties of normalization.                                            *)
(***************************************************************************)
\* The default of a column of the given type.
DefaultCell(variableType) ==
    CASE variableType = "number" -> Num(0)
      [] variableType = "boolean" -> Str(<<"f", "a", "l", "s", "e">>)
      [] OTHER -> Str(<<"-">>)

\* Row r of rawData, at the source field of column k, is missing or falsy.
RawFalsy(rawData, r, k) == ~Truthy(Prop(rawData[r], list[k].sourceField))

RawBoolean(rawData, r, k) == Prop(rawData[r], list[k].sourceField).t = "boolean"

\* C10 as stated: wherever the raw value at a column's source field is
\* missing or falsy, the parsed cell is 0 in a number column, "false" in a
\* boolean column and "-" in any other, and the load does not throw.
C10_DefensiveDefaults ==
    [][\A rawData \in ParsePages :
          (createTable(rawData) \/ addRecords(rawData)) =>
              /\ thrown' = "none"
              /\ \A r \in 1..Len(rawData), k \in 1..Len(list) :
                     RawFalsy(rawData, r, k) =>
                         dataSet'[Len(dataSet') - Len(rawData) + r][k]
                             = DefaultCell(MapGet(maps'.types, list[k].uid))]_vars

\* C10 amended: the same of every raw value that is missing or falsy and is
\* not a boolean (a boolean is stringified before the defaults apply).
C10_DefaultsAfterStringify ==
    [][\A rawData \in ParsePages :
          (createTable(rawData) \/ addRecords(rawData)) =>
              /\ thrown' = "none"
              /\ \A r \in 1..Len(rawData), k \in 1..Len(list) :
                     (RawFalsy(rawData, r, k) /\ ~RawBoolean(rawData, r, k)) =>
                         dataSet'[Len(dataSet') - Len(rawData) + r][k]
                             = DefaultCell(MapGet(maps'.types, list[k].uid))]_vars

\* C10, where it matters: a number column with a row that got the default 0
\* and an appended row that kept its value.
C10_Reached ==
    /\ op = "addRecords"
    /\ thrown = "none"
    /\ MapGet(maps.types, "0") = "number"
    /\ dataSet = << <<Num(0)>>, <<Num(7)>> >>

\* chars has digits at the places in digitsAt and the character mark at the
\* places in marksAt.
Shaped(chars, len, digitsAt, mark, marksAt) ==
    /\ Len(chars) = len
    /\ \A i \in digitsAt : IsDigit(chars[i])
    /\ \A i \in marksAt : chars[i] = mark

\* YYYY-MM-DD, HH:mm:ss, DD/MM/YYYY.
IsoDateShape(chars) == Shaped(chars, 10, {1, 2, 3, 4, 6, 7, 9, 10}, "-", {5, 8})

TimeShape(chars) == Shaped(chars, 8, {1, 2, 4, 5, 7, 8}, ":", {3, 6})

EuDateShape(chars) == Shaped(chars, 10, {1, 2, 4, 5, 7, 8, 9, 10}, "/", {3, 6})

\* YYYY-MM-DDTHH:mm:ss and DD/MM/YYYY HH:mm:ss.
Stamped(chars, joint) ==
    /\ Len(chars) = 19
    /\ chars[11] = joint
    /\ TimeShape(SubSeq(chars, 12, 19))

\* DD/MM/YYYY of YYYY-MM-DD.
EuOfIso(chars) ==
    SubSeq(chars, 9, 10) \o <<"/">> \o SubSeq(chars, 6, 7) \o <<"/">> \o SubSeq(chars, 1, 4)

\* The cell the raw string chars is to give in a column of EU dates.
ExpectedEuDate(chars) ==
    IF IsoDateShape(chars) THEN EuOfIso(chars)
    ELSE IF Stamped(chars, "T") /\ IsoDateShape(SubSeq(chars, 1, 10))
    THEN EuOfIso(SubSeq(chars, 1, 10)) \o <<" ">> \o SubSeq(chars, 12, 19)
    ELSE chars

\* The raw string is an EU date, an EU date and time, an ISO date or an ISO
\* date and time.
DateShaped(chars) ==
    \/ EuDateShape(chars)
    \/ IsoDateShape(chars)
    \/ Stamped(chars, " ") /\ EuDateShape(SubSeq(chars, 1, 10))
    \/ Stamped(chars, "T") /\ IsoDateShape(SubSeq(chars, 1, 10))

RawValue(rawData, r, k) == Prop(rawData[r], list[k].sourceField)

\* C11: in a column of EU dates a value DD/MM/YYYY[ HH:mm:ss] is kept as it
\* is, YYYY-MM-DD becomes DD/MM/YYYY with its zeros, and YYYY-MM-DDTHH:mm:ss
\* becomes the date, one space and the time.
C11_EuDateNormalized ==
    [][\A rawData \in ParsePages :
          (createTable(rawData) \/ addRecords(rawData)) =>
              \A r \in 1..Len(rawData), k \in 1..Len(list) :
                  (/\ MapGet(maps'.types, list[k].uid) = "eu_date"
                   /\ RawValue(rawData, r, k).t = "string"
                   /\ DateShaped(RawValue(rawData, r, k).s)) =>
                      dataSet'[Len(dataSet') - Len(rawData) + r][k]
                          = Str(ExpectedEuDate(RawValue(rawData, r, k).s))]_vars

\* C11, where it fails: a cell of a column of EU dates holds markup.
C11_Reached ==
    /\ op \in {"createTable", "addRecords"}
    /\ thrown = "none"
    /\ MapGet(maps.types, "0") = "eu_date"
    /\ \E r \in 1..Len(dataSet) : "<" \in Range(dataSet[r][1].s)

(***************************************************************************)
(* A DataCollection used without a Table: the caller chooses the uids.     *)
(***************************************************************************)
MaxColumns == 2

\* A declaration as a caller writes it; "" is a property left out.
Declaration(uid, sourceField) ==
    [typeof |-> "object", uid |-> uid, sourceField |-> sourceField,
     dataType |-> "", defaultOrder |-> ""]

RegistryModels ==
    UNION {[1..n -> {Declaration(uid, sourceField) :
                        uid \in {"", "a", "b"}, sourceField \in {"", "x", "y"}}] :
              n \in 1..MaxColumns}

RegistryPages == {<<>>, << << <<"x", Num(1)>>, <<"y", Num(2)>> >> >>}

InitRegistry ==
    /\ list \in RegistryModels
    /\ maps = EmptyMaps
    /\ dataSet = <<>>
    /\ temporaryDataSet = <<>>
    /\ shared = FALSE
    /\ named = NoNamed(0)
    /\ fetcher = NoRequest
    /\ rendered = FALSE
    /\ host \in {h \in Hosts : h.engine = "v8"}
    /\ op = "new"
    /\ thrown = "none"

\* _createDataSet, reached only when _createVariablesMaps has not thrown.
CreateDataSet(built, rows) ==
    /\ maps' = built.maps
    /\ thrown' = built.thrown
    /\ IF built.thrown # "none"
       THEN UNCHANGED <<dataSet, temporaryDataSet, shared, named>>
       ELSE /\ dataSet' = rows
            /\ named' = NoNamed(Len(rows))
            /\ temporaryDataSet' = ObjectAssign(rows).items
            /\ shared' = ~ObjectAssign(rows).fresh

\* DataCollection.buildDataCollection(rawData).
buildDataCollection(rawData) ==
    /\ op' = "buildDataCollection"
    /\ CreateDataSet(createVariablesMaps(maps, list),
                     IF Len(rawData) > 0
                     THEN parseRecords(createVariablesMaps(maps, list).maps, rawData)
                     ELSE <<>>)
    /\ UNCHANGED <<list, fetcher, rendered, host>>

NextRegistry == \E rawData \in RegistryPages : buildDataCollection(rawData)

SpecRegistry == InitRegistry /\ [][NextRegistry]_vars

\* Two declarations name the same source field, or give the same uid.
SharedKey(variablesList) ==
    \E i, j \in 1..Len(variablesList) :
        /\ i < j
        /\ \/ /\ variablesList[i].sourceField # ""
              /\ variablesList[i].sourceField = variablesList[j].sourceField
           \/ /\ variablesList[i].uid # ""
              /\ variablesList[i].uid = variablesList[j].uid

\* C12: the registration of a list in which two declarations share a source
\* field or an explicit uid throws, and it leaves every lookup map empty.
C12_DuplicateKeyFails ==
    [][\A rawData \in RegistryPages :
          (maps = EmptyMaps /\ SharedKey(list) /\ buildDataCollection(rawData)) =>
              (thrown' # "none" /\ maps' = EmptyMaps)]_vars

\* C12, where it fails: a list with a shared key has been registered.
C12_Reached ==
    /\ op = "buildDataCollection"
    /\ thrown = "none"
    /\ SharedKey(list)
    /\ Len(maps.index) > 0

\* Each entry of map f has its mirror in map g.
Mirrored(f, g) ==
    \A i \in 1..Len(f) : MapHas(g, f[i][2]) /\ MapGet(g, f[i][2]) = f[i][1]

\* uids and reverseUids are inverse of each other, index and reverseIndex
\* too, each declared field has its entry, and the ordinals are 0..n-1 in
\* the order of the declarations.
RegistryBijection(m, variablesList) ==
    /\ Mirrored(m.uids, m.reverseUids) /\ Mirrored(m.reverseUids, m.uids)
    /\ Mirrored(m.index, m.reverseIndex) /\ Mirrored(m.reverseIndex, m.index)
    /\ Len(m.uids) = Len(variablesList)
    /\ Len(m.index) = Len(variablesList)
    /\ \A i \in 1..Len(variablesList) :
          /\ MapHas(m.reverseUids, variablesList[i].sourceField)
          /\ MapHas(m.reverseIndex, i - 1)
          /\ MapGet(m.reverseIndex, i - 1)
                 = MapGet(m.reverseUids, variablesList[i].sourceField)

\* C13: after a registration that has not thrown, the lookup maps are a
\* bijection between the declared fields, their uids and the ordinals 0..n-1.
C13_RegistryBijection ==
    (op = "buildDataCollection" /\ thrown = "none") => RegistryBijection(maps, list)

\* C13, where it fails: a registration has gone through and two uids lead to
\* one source field.
C13_Reached ==
    /\ op = "buildDataCollection"
    /\ thrown = "none"
    /\ Len(maps.reverseUids) < Len(maps.uids)

\* A declaration of the list has no source field.
LacksSourceField(variablesList) ==
    \E i \in 1..Len(variablesList) : variablesList[i].sourceField = ""

\* C20: the registration of a list of which a declaration lacks its source
\* field throws, and no lookup map holds an entry of any declaration of the
\* list, those before the faulty one included.
C20_NoPartialRegistry ==
    [][\A rawData \in RegistryPages :
          (maps = EmptyMaps /\ LacksSourceField(list) /\ buildDataCollection(rawData)) =>
              (thrown' # "none" /\ maps' = EmptyMaps)]_vars

\* C20, where it fails: the registration has thrown on a declaration without
\* source field, and the declarations before it are in the maps.
C20_Reached ==
    /\ op = "buildDataCollection"
    /\ thrown = "source fields are missing"
    /\ Len(maps.uids) > 0

(***************************************************************************)
(* Events whose data-ft-column names a column the table does not have.     *)
(***************************************************************************)
EventColumns == ColumnUIDs \cup {"9"}

ColumnPages == {q \in Pages : Len(q) <= 1}

NextColumns ==
    \/ \E data \in ColumnPages : ~rendered /\ createTable(data)
    \/ refreshTable
    \/ \E c \in EventColumns \ {"1"}, value \in {<<>>, <<"1">>} : filterEvent(c, value)
    \/ \E c \in EventColumns \ {"0"}, order \in SortOrders : sortClick(c, order)

SpecColumns == Init /\ [][NextColumns]_vars

\* An entry of the sort state or of the filter state is of a column that
\* the registry does not hold.
UnknownColumn(m) ==
    \/ \E k \in 1..Len(m.sorting) : ~MapHas(m.index, m.sorting[k][1])
    \/ \E k \in 1..Len(m.filtering) : ~MapHas(m.index, m.filtering[k][1])

\* C14: a recompute under a sort state or a filter state that names an
\* absent column fails with an error, whatever the rows (none included) and
\* whatever the entry (a sort state of none, an empty filter text).
C14_UnknownColumnFatal ==
    [][(/\ op' \in {"refreshTable", "filterEvent", "sortClick"}
        /\ rendered
        /\ UnknownColumn(maps')) => thrown' # "none"]_vars

\* C14, where it fails: a recompute has gone through with an absent column
\* in the sort state or in the filter state.
C14_Reached ==
    /\ op \in {"refreshTable", "filterEvent", "sortClick"}
    /\ rendered
    /\ UnknownColumn(maps)
    /\ thrown = "none"

(***************************************************************************)
(* A collection whose cells are edited and whose data is cleared.          *)
(***************************************************************************)
EditScalars == {Null, Num(5), Str(<<"a", "b">>)}

EditArrays == {Arr(q) : q \in UNION {[1..n -> {Num(5), Str(<<"a", "b">>)}] : n \in 0..2}}

\* The pages of an edited table: at most two rows, of the records whose y is 1.
EditPages ==
    {q \in Pages : Len(q) <= 2 /\ \A i \in 1..Len(q) : Prop(q[i], "y") = Num(1)}

NextEdit ==
    \/ \E data \in EditPages : ~rendered /\ createTable(data)
    \/ \E recordIndex \in {Undefined, Num(0), Num(1)}, c \in ColumnUIDs,
          values \in EditScalars \cup EditArrays :
           /\ rendered
           /\ Truthy(recordIndex) => recordIndex.n < Len(dataSet)
           /\ editDataPoints(recordIndex, c, values)
    \/ \E data, variables \in BOOLEAN : removeAllData(data, variables)
    \/ \E rawData \in EditPages : Len(rawData) = 1 /\ NotStored(rawData) /\ addRecords(rawData)

SpecEdit == Init /\ [][NextEdit]_vars

\* rawValue as a cell of column c.
Normalized(m, c, rawValue) == parseDataPoint(rawValue, MapGet(m.types, c))

\* C15: editDataPoints with the index of a row (0 included) and the UID of a
\* column overwrites that row's cell of the column with the normalized value
\* and leaves every other cell, the rows and the maps as they were.
C15_EditCellOverwrites ==
    [][\A r \in 0..(MaxRows - 1), c \in ColumnUIDs, rawValue \in EditScalars :
          (/\ r < Len(dataSet)
           /\ MapHas(maps.index, c)
           /\ editDataPoints(Num(r), c, rawValue)) =>
              /\ dataSet' = [dataSet EXCEPT ![r + 1][MapGet(maps.index, c) + 1] =
                                                Normalized(maps, c, rawValue)]
              /\ maps' = maps]_vars

\* C15, where it fails: the edit of one cell has gone to a property of the
\* array of rows.
C15_Reached ==
    /\ op = "editDataPoints"
    /\ Len(dataSet) > 1
    /\ named.dataSet # Undefined

\* C16: editDataPoints without record index, with the UID of a column and
\* one value per row, leaves in each row's cell of the column its normalized
\* value, and every other cell as it was.
C16_EditColumnOverwrites ==
    [][\A c \in ColumnUIDs, values \in EditArrays :
          (/\ Len(values.s) = Len(dataSet)
           /\ MapHas(maps.index, c)
           /\ editDataPoints(Undefined, c, values)) =>
              /\ Len(dataSet') = Len(dataSet)
              /\ \A i \in 1..Len(dataSet) :
                    dataSet'[i] = [dataSet[i] EXCEPT ![MapGet(maps.index, c) + 1] =
                                                         Normalized(maps, c, values.s[i])]]_vars

\* C16, where it fails: the values of a bulk edit are each in a property of
\* their row.
C16_Reached ==
    /\ op = "editDataPoints"
    /\ thrown = "none"
    /\ Len(dataSet) > 0
    /\ \A r \in 1..Len(dataSet) : named.rows[r] \in {Num(5), Str(<<"a", "b">>)}

\* C17: a bulk edit with more or fewer values than there are rows fails with
\* an error and changes no cell.
C17_LengthMismatchFails ==
    [][\A c \in ColumnUIDs, values \in EditArrays :
          (/\ Len(values.s) # Len(dataSet)
           /\ editDataPoints(Undefined, c, values)) =>
              (thrown' # "none" /\ dataSet' = dataSet)]_vars

\* C17, where it fails: a bulk edit of two rows with one value has gone
\* through, and the second row has the value of a missing one.
C17_Reached ==
    /\ op = "editDataPoints"
    /\ thrown = "none"
    /\ Len(dataSet) = 2
    /\ named.rows = <<Num(5), Str(<<"-">>)>>

\* C18: removeAllData(true, variables) leaves dataSet and temporaryDataSet
\* empty; without variables every map is as it was, with variables every map
\* is empty.
C18_ClearFrame ==
    [][\A variables \in BOOLEAN :
          removeAllData(TRUE, variables) =>
              /\ dataSet' = <<>>
              /\ temporaryDataSet' = <<>>
              /\ IF variables
                 THEN \A k \in DOMAIN maps' : maps'[k] = <<>>
                 ELSE maps' = maps]_vars

\* C18: the data of a table with rows has been cleared and its registry kept.
C18_Reached ==
    /\ op = "removeAllData"
    /\ dataSet = <<>>
    /\ temporaryDataSet = <<>>
    /\ Len(maps.index) = Len(list)
    /\ \E k \in 1..Len(maps.sorting) : maps.sorting[k][2] = "desc"

(***************************************************************************)
(* The comparator: a column of cells of every kind, sorted both ways.      *)
(***************************************************************************)
CompareCells ==
    {Str(<<"0", "7", "/", "0", "5", "/", "2", "0", "2", "3", " ",
           "1", "0", ":", "0", "0", ":", "0", "0">>),
     Str(<<"0", "7", "/", "0", "5", "/", "2", "0", "2", "3", " ",
           "0", "9", ":", "0", "0", ":", "0", "0">>),
     Str(<<"0", "8", "/", "0", "5", "/", "2", "0", "2", "3">>),
     Num(2), Num(10), Str(<<"1", "0">>), Str(<<"9">>),
     Str(<<"A", "b">>), Str(<<"a", "b">>)}

ComparePages ==
    {<< << <<"x", a>> >>, << <<"x", b>> >> >> : a, b \in CompareCells}

NextCompare ==
    \/ \E data \in ComparePages : ~rendered /\ createTable(data)
    \/ \E order \in SortOrders : sortClick("0", order)

SpecCompare == Init /\ [][NextCompare]_vars

\* -1, 0 or 1 as the first difference of two tuples of numbers decides.
RECURSIVE TupleSign(_, _)
TupleSign(p, q) ==
    IF Len(p) = 0 \/ Len(q) = 0 THEN 0
    ELSE IF p[1] < q[1] THEN -1
    ELSE IF p[1] > q[1] THEN 1
    ELSE TupleSign(Tail(p), Tail(q))

\* DD/MM/YYYY, alone or followed by a space and HH:mm:ss.
EuShaped(cell) ==
    /\ cell.t = "string"
    /\ \/ EuDateShape(cell.s)
       \/ Stamped(cell.s, " ") /\ EuDateShape(SubSeq(cell.s, 1, 10))

\* Year, month, day, hour, minute and second of an EU date.
Timestamp(chars) ==
    <<DigitsValue(SubSeq(chars, 7, 10)), DigitsValue(SubSeq(chars, 4, 5)),
      DigitsValue(SubSeq(chars, 1, 2))>>
    \o (IF Len(chars) = 19
        THEN <<DigitsValue(SubSeq(chars, 12, 13)), DigitsValue(SubSeq(chars, 15, 16)),
               DigitsValue(SubSeq(chars, 18, 19))>>
        ELSE <<0, 0, 0>>)

\* A number, or a string of digits.
FiniteNumber(cell) ==
    \/ cell.t = "number"
    \/ cell.t = "string" /\ Len(cell.s) > 0 /\ \A i \in 1..Len(cell.s) : IsDigit(cell.s[i])

NumberOf(cell) == IF cell.t = "string" THEN DigitsValue(cell.s) ELSE cell.n

\* The order of two cells as the three rules give it, ascending.
ExpectedSign(a, b) ==
    IF EuShaped(a) /\ EuShaped(b) THEN TupleSign(Timestamp(a.s), Timestamp(b.s))
    ELSE IF FiniteNumber(a) /\ FiniteNumber(b)
    THEN TupleSign(<<NumberOf(a)>>, <<NumberOf(b)>>)
    ELSE TupleSign(<<IF StrLess(ToChars(a), ToChars(b)) THEN 0 ELSE 1>>,
                   <<IF StrLess(ToChars(b), ToChars(a)) THEN 0 ELSE 1>>)

Direction(order) == IF order = "desc" THEN -1 ELSE 1

\* The comparator gives, for the cells of rows i and j of the sorted column,
\* the sign that the three rules give, turned by the direction of the sort.
SignsAgree(i, j, order) ==
    TupleSign(<<compareDataPoints(dataSet[i][1], dataSet[j][1], Direction(order), host)>>,
              <<0>>)
        = Direction(order) * ExpectedSign(dataSet[i][1], dataSet[j][1])

\* C19: when a column is sorted, its comparator orders two EU dates by date
\* and time of day, two finite numbers by value, any other two cells as
\* case-sensitive strings, and turns the result for a descending sort.
C19_ComparatorSemantics ==
    [][\A order \in {"asc", "desc"} :
          sortClick("0", order) =>
              \A i, j \in 1..Len(dataSet) : SignsAgree(i, j, order)]_vars

\* C19, where it fails: an ascending sort has left 10:00:00 before 09:00:00
\* of the same day.
C19_Reached ==
    /\ op = "sortClick"
    /\ thrown = "none"
    /\ MapGet(maps.sorting, "0") = "asc"
    /\ Len(temporaryDataSet) = 2
    /\ EuShaped(temporaryDataSet[1][1]) /\ EuShaped(temporaryDataSet[2][1])
    /\ TupleSign(Timestamp(temporaryDataSet[1][1].s), Timestamp(temporaryDataSet[2][1].s)) = 1

(***************************************************************************)
(* Table: export of the rows to CSV.                                       *)
(***************************************************************************)
\* Array.prototype.join on strings.
RECURSIVE Join(_, _)
Join(items, separator) ==
    IF Len(items) = 0 THEN <<>>
    ELSE IF Len(items) = 1 THEN items[1]
    ELSE items[1] \o separator \o Join(Tail(items), separator)

\* body.replace(/<\/?[^>]+(>|$)/g, ' '): from a "<" that a character other
\* than ">" follows, up to the next ">" or, without one, to the end.
RECURSIVE StripTags(_)
StripTags(chars) ==
    IF Len(chars) = 0 THEN <<>>
    ELSE IF chars[1] = "<" /\ Len(chars) > 1 /\ chars[2] # ">"
    THEN IF \E i \in 3..Len(chars) : chars[i] = ">"
         THEN <<" ">> \o StripTags(SubSeq(chars,
                                          1 + CHOOSE i \in 3..Len(chars) :
                                                  /\ chars[i] = ">"
                                                  /\ \A j \in 3..(i - 1) : chars[j] # ">",
                                          Len(chars)))
         ELSE <<" ">>
    ELSE <<chars[1]>> \o StripTags(Tail(chars))

\* exportingData.map((elements) => elements.join(',')).join('\n').
CsvLines(exportingData) ==
    Join([r \in 1..Len(exportingData) |->
             Join([k \in 1..Len(exportingData[r]) |->
                      IF exportingData[r][k].t \in {"undefined", "null"} THEN <<>>
                      ELSE ToChars(exportingData[r][k])],
                  <<",">>)],
         <<"\n">>)

\* The body of the CSV that _exportData writes, under the table's export
\* option ("raw" or "safe").
csvBody(export, temp, data) ==
    IF export = "safe" THEN StripTags(CsvLines(IF Len(temp) > 0 THEN temp ELSE data))
    ELSE CsvLines(IF Len(temp) > 0 THEN temp ELSE data)

\* The click listener of the export button: _exportData() hands the CSV to
\* the browser as a download and changes nothing of the table.
exportData(export) ==
    /\ rendered
    /\ op' = "exportData"
    /\ thrown' = "none"
    /\ UNCHANGED <<list, fetcher, maps, dataSet, temporaryDataSet, shared, named, rendered, host>>

(***************************************************************************)
(* A table that is built, appended to, sorted, filtered, reset, exported.  *)
(***************************************************************************)
\* The pages of the table: at most two rows, of the records whose x is not 2.
TablePages ==
    {q \in Pages : Len(q) <= 2 /\ \A i \in 1..Len(q) : Prop(q[i], "x") # Num(2)}

NextTable ==
    \/ \E data \in TablePages : ~rendered /\ buildDataCollection(data)
    \/ \E data \in TablePages : createTable(data)
    \/ refreshTable
    \/ \E value \in FilterTexts : filterEvent("0", value)
    \/ \E c \in ColumnUIDs, order \in SortOrders : sortClick(c, order)
    \/ rendered /\ resetTable
    \/ \E rawData \in TablePages :
           /\ Len(rawData) = 1 /\ Len(dataSet) < 2 /\ NotStored(rawData)
           /\ addRecords(rawData)
    \/ \E export \in {"raw", "safe"} : exportData(export)

SpecTable == Init /\ [][NextTable]_vars

\* Every column's sort state is its default order.
SortedAsDeclared(m) ==
    /\ Len(m.sorting) = Len(m.defaultOrder)
    /\ \A k \in 1..Len(m.defaultOrder) :
          /\ MapHas(m.sorting, m.defaultOrder[k][1])
          /\ MapGet(m.sorting, m.defaultOrder[k][1]) = m.defaultOrder[k][2]

\* C21 as stated: registration alone leaves every sort state at none, and
\* once the table is built no operation but a click on a sorting button, a
\* reset and a further load included, changes a sort state (the default
\* order is copied once).
C21_DefaultOrderCopiedOnce ==
    [][/\ op' = "buildDataCollection" =>
              \A k \in 1..Len(maps'.sorting) : maps'.sorting[k][2] = "none"
       /\ (rendered /\ op' # "sortClick") => maps'.sorting = maps.sorting]_vars

\* C21, amended: registration alone leaves every sort state at none; every
\* build of the table structure (createTable, resetTable) makes each sort
\* state the column's default order; a filter event, a refresh, an append
\* and an export leave the sort state as it is, and a click on a sorting
\* button leaves the clicked column with the order of the button.
C21_DefaultOrderCopiedAtBuild ==
    [][/\ op' = "buildDataCollection" =>
              \A k \in 1..Len(maps'.sorting) : maps'.sorting[k][2] = "none"
       /\ (op' \in {"createTable", "resetTable"} /\ thrown' = "none") =>
              SortedAsDeclared(maps')
       /\ op' \in {"filterEvent", "refreshTable", "addRecords", "exportData"} =>
              maps'.sorting = maps.sorting
       /\ \A c \in ColumnUIDs, order \in SortOrders :
              sortClick(c, order) => MapGet(maps'.sorting, c) = order]_vars

\* C21: a reset has made the sort states the default orders again, on a
\* table of two rows.
C21_Reached ==
    /\ op = "resetTable"
    /\ thrown = "none"
    /\ Len(dataSet) > 1
    /\ SortedAsDeclared(maps)
    /\ MapGet(maps.sorting, "1") = "desc"

\* Each row has one cell per entry of the index map, and each column's
\* ordinal is a position of the row.
RowShape(m, rows) ==
    \A r \in 1..Len(rows) :
        /\ Len(rows[r]) = Len(m.index)
        /\ \A k \in 1..Len(m.index) : m.index[k][2] + 1 \in 1..Len(rows[r])

\* The cell of each row at a column's ordinal is the normalized value that
\* the raw record of the row has for the column.
CellsPlaced(m, rows, rawData) ==
    \A r \in 1..Len(rawData), k \in 1..Len(m.index) :
        /\ m.index[k][2] + 1 \in 1..Len(rows[r])
        /\ rows[r][m.index[k][2] + 1]
               = parseDataPoint(Prop(rawData[r], MapGet(m.uids, m.index[k][1])),
                                MapGet(m.types, m.index[k][1]))

\* C22: after a registration and a load, every row of dataSet and of
\* temporaryDataSet has one cell per registered column, and the cell at
\* position k is the normalized value of the column of ordinal k.
C22_RowShape ==
    [][\A rawData \in RegistryPages :
          (buildDataCollection(rawData) /\ thrown' = "none") =>
              /\ RowShape(maps', dataSet')
              /\ RowShape(maps', temporaryDataSet')
              /\ CellsPlaced(maps', dataSet', rawData)]_vars

\* C22, where it fails: a row has been loaded under a registry whose only
\* column has ordinal 1.
C22_Reached ==
    /\ op = "buildDataCollection"
    /\ thrown = "none"
    /\ Len(dataSet) > 0
    /\ Len(maps.index) = 1
    /\ maps.index[1][2] = 1

\* filterRecords(sortRecords(dataSet)) under the sort and filter state m.
DerivedView(m, data, h) == filterRecords(m, sortRecords(m, data, h).records).records

\* C23: after every completed operation of the table (createTable, a click
\* on a sorting button, a filter event, refreshTable, resetTable) the view
\* is filterRecords(sortRecords(dataSet)) under the sort and filter state of
\* that moment.
C23_ViewDerived ==
    (/\ op \in {"createTable", "sortClick", "filterEvent", "refreshTable", "resetTable"}
     /\ thrown = "none")
        => temporaryDataSet = DerivedView(maps, dataSet, host)

\* C23: a filter event has completed on a sorted table and the view has
\* fewer rows than the table, in another order.
C23_Reached ==
    /\ op = "filterEvent"
    /\ thrown = "none"
    /\ Len(dataSet) = 2
    /\ Len(temporaryDataSet) = 1
    /\ temporaryDataSet[1] = dataSet[2]
    /\ MapGet(maps.sorting, "0") = "desc"

\* The entries of map g are those of map f, but for the key.
OthersKept(f, g, key) ==
    /\ Len(g) = Len(f)
    /\ \A k \in 1..Len(f) : f[k][1] # key => g[k] = f[k]

\* C24: a filter event and a refresh leave every column's sort state as it
\* is; a click on a sorting button leaves the sort state of every other
\* column and every filter text as they are.
C24_SortStateFrame ==
    [][/\ op' \in {"filterEvent", "refreshTable"} => maps'.sorting = maps.sorting
       /\ \A c \in ColumnUIDs, order \in SortOrders :
              sortClick(c, order) =>
                  /\ maps'.filtering = maps.filtering
                  /\ OthersKept(maps.sorting, maps'.sorting, c)]_vars

\* C24: a filter text has been set on a column that is sorted, next to a
\* column sorted the other way.
C24_Reached ==
    /\ op = "filterEvent"
    /\ thrown = "none"
    /\ MapGet(maps.filtering, "0") = <<"1">>
    /\ MapGet(maps.sorting, "0") = "asc"
    /\ MapGet(maps.sorting, "1") = "desc"
    /\ Len(dataSet) > 1

\* C25: resetTable leaves dataSet as it is, leaves no column with a filter
\* text, makes every column's sort state its default order, and makes the
\* view dataSet sorted by the default orders.
C25_ResetKeepsData ==
    [][resetTable =>
          /\ dataSet' = dataSet
          /\ \A k \in 1..Len(maps'.filtering) : maps'.filtering[k][2] = <<>>
          /\ SortedAsDeclared(maps')
          /\ temporaryDataSet'
                 = sortRecords([maps EXCEPT !.sorting = maps.defaultOrder],
                               dataSet, host).records]_vars

\* C25: a table of two rows has been reset and its view shows them both, in
\* the default order, which is not the order they were loaded in.
C25_Reached ==
    /\ op = "resetTable"
    /\ thrown = "none"
    /\ Len(dataSet) = 2
    /\ temporaryDataSet = <<dataSet[2], dataSet[1]>>
    /\ maps.filtering = <<>>

\* C26: the rows _exportData writes are the rows of the view, in order, the
\* cells of each joined by commas; when the filters leave no row in the view,
\* no row is written.
C26_ExportsView ==
    [][\A export \in {"raw", "safe"} :
          exportData(export) =>
              csvBody(export, temporaryDataSet, dataSet) = CsvLines(temporaryDataSet)]_vars

\* C26, where it fails: an export is made while the filters leave no row of
\* a table that has rows.
C26_Reached ==
    /\ op = "exportData"
    /\ temporaryDataSet = <<>>
    /\ Len(dataSet) > 0
    /\ \E k \in 1..Len(maps.filtering) : maps.filtering[k][2] # <<>>

(***************************************************************************)
(* The Fetcher: a search form and a "More Records" button around a table,  *)
(* with pagination enabled and no custom data processing.  Each call of    *)
(* _getData starts a request that a later callback answers or fails; the   *)
(* callbacks of several requests run in any order.                         *)
(***************************************************************************)

\* The calls of fetch one run makes.
MaxRequests == 3

\* What the server answers a request with: an empty page, or one record
\* that carries the number of the request in y.
PagesFor(id) == {<<>>, << << <<"x", Str(<<"A">>)>>, <<"y", Num(id)>> >> >>}

\* The request a row came with.
RequestOf(row) == row[2].n

\* The synchronous part of _getData: the button is disabled, a new query
\* empties the rows (removeAllData(true, false)) and the page map, and the
\* request is sent.
StartRequest(newQuery, id) ==
    /\ fetcher' = [fetcher EXCEPT !.disabled = TRUE,
                                  !.pages = IF newQuery THEN 0 ELSE @,
                                  !.pending = @ \cup {id},
                                  !.issued = id,
                                  !.newest = IF newQuery THEN id ELSE @]
    /\ dataSet' = IF newQuery THEN <<>> ELSE dataSet
    /\ temporaryDataSet' = IF newQuery THEN <<>> ELSE temporaryDataSet
    /\ shared' = (~newQuery /\ shared)
    /\ named' = IF newQuery THEN NoNamed(0) ELSE named

\* Fetcher._getData(newQuery), up to the call of fetch.
getData(newQuery) ==
    /\ rendered
    /\ fetcher.issued < MaxRequests
    /\ op' = "getData"
    /\ StartRequest(newQuery, fetcher.issued + 1)
    /\ thrown' = "none"
    /\ UNCHANGED <<list, maps, rendered, host>>

\* The callback's table calls done: _buildPage has added a page, and the
\* button is enabled after a page with rows and disabled after an empty one;
\* a throw of the table ends the callback in its catch before the button.
PageShown(id, data, view) ==
    /\ SetView(view)
    /\ fetcher' = [fetcher EXCEPT !.pending = @ \ {id},
                                  !.pages = @ + 1,
                                  !.disabled = IF view.thrown = "none"
                                               THEN Len(data) = 0 ELSE @]

\* addRecords(data) of a page with rows, as [data, temp]: the rows are pushed
\* on dataSet, and on temporaryDataSet if it is the same array.
PagePushed(rows) ==
    [data |-> dataSet \o rows,
     temp |-> IF shared THEN dataSet \o rows ELSE temporaryDataSet]

PageRefreshed(id, data, pushed) ==
    PageShown(id, data, refreshView(maps, pushed.data, pushed.temp, rendered, host))

\* The callback of request id with the page the server sent: _buildPage,
\* then addRecords and refreshTable (the page map is never empty here), or
\* refreshTable alone for an empty page.
response(id, data) ==
    /\ id \in fetcher.pending
    /\ op' = "response"
    /\ PageRefreshed(id, data,
                     PagePushed(IF Len(data) > 0 THEN parseRecords(maps, data) ELSE <<>>))
    /\ named' = [named EXCEPT !.rows = @ \o [r \in 1..Len(data) |-> Undefined]]
    /\ UNCHANGED <<list, maps, rendered, host>>

\* The catch of a request that failed: an alert, and nothing else.
failure(id) ==
    /\ id \in fetcher.pending
    /\ op' = "failure"
    /\ fetcher' = [fetcher EXCEPT !.pending = @ \ {id}]
    /\ thrown' = "none"
    /\ UNCHANGED <<list, maps, dataSet, temporaryDataSet, shared, named, rendered, host>>

\* initialise() builds the empty table; then the search button and, while
\* it is enabled, the "More Records" button are clicked, and the requests
\* are answered or fail in any order.
NextFetcher ==
    \/ ~rendered /\ createTable(<<>>)
    \/ getData(TRUE)
    \/ ~fetcher.disabled /\ getData(FALSE)
    \/ \E id \in 1..MaxRequests : \E data \in PagesFor(id) : response(id, data)
    \/ \E id \in 1..MaxRequests : failure(id)

SpecFetcher == Init /\ [][NextFetcher]_vars

\* C27: whenever a request that _getData started has neither been answered
\* nor failed, the "More Records" button is disabled.
C27_DisabledWhilePending == fetcher.pending # {} => fetcher.disabled

\* A page with rows has been shown while another request is on its way.
C27_Reached ==
    /\ op = "response"
    /\ Len(dataSet) > 0
    /\ fetcher.pending # {}

\* C28: after a new query the rows are only those that came with the
\* requests made at or after that query.
C28_NoStaleRecords ==
    \A r \in 1..Len(dataSet) : RequestOf(dataSet[r]) >= fetcher.newest

\* A page with rows has been shown after a new query.
C28_Reached ==
    /\ op = "response"
    /\ fetcher.newest > 0
    /\ Len(dataSet) > 0

\* The comparator on the cells that rows i and j hold in the column at
\* variableIndex, ascending.
ComparedAt(variableIndex, i, j) ==
    compareRecords(dataSet[i], dataSet[j], variableIndex, 1, host)

\* C29: over the cells a column holds, the comparator gives opposite signs
\* to (a, b) and (b, a), and two cells that each tie with a third tie with
\* each other.
C29_StrictWeakOrder ==
    \A variableIndex \in {0, 1} : \A i, j, k \in 1..Len(dataSet) :
        /\ TupleSign(<<ComparedAt(variableIndex, i, j)>>, <<0>>)
               = -TupleSign(<<ComparedAt(variableIndex, j, i)>>, <<0>>)
        /\ ComparedAt(variableIndex, i, j) = 0 /\ ComparedAt(variableIndex, j, k) = 0
               => ComparedAt(variableIndex, i, k) = 0

\* C29, where it fails: a sort has been run on rows of which one ties with
\* two that do not tie with each other.
C29_Reached ==
    /\ op = "sortClick"
    /\ thrown = "none"
    /\ \E variableIndex \in {0, 1} : \E i, j, k \in 1..Len(dataSet) :
          /\ ComparedAt(variableIndex, i, j) = 0
          /\ ComparedAt(variableIndex, j, k) = 0
          /\ ComparedAt(variableIndex, i, k) # 0

\* The value type of the column that holds a row's cell k.
TypeAt(k) == MapGet(maps.types, list[k].uid)

\* C30: a parsed cell is neither undefined nor the empty string, and
\* parsing it again under its column's type gives the same cell.
C30_NormalizationIdempotent ==
    \A r \in 1..Len(dataSet) : \A k \in 1..Len(dataSet[r]) :
        /\ dataSet[r][k] \notin {Undefined, Str(<<>>)}
        /\ parseDataPoint(dataSet[r][k], TypeAt(k)) = dataSet[r][k]

\* C30, where it fails: a raw record has been parsed into an empty cell.
C30_Reached ==
    /\ op \in {"createTable", "addRecords"}
    /\ thrown = "none"
    /\ \E r \in 1..Len(dataSet) : dataSet[r][1] = Str(<<>>)

====
